---- MODULE Spec2Model ----
(***************************************************************************)
(* A model of wikibench: the shortest-path finder                          *)
(* (src/wikipedia/pathfinder.py), the move parser (src/game/parser.py),    *)
(* the link extraction (src/wikipedia/links.py), the game loop             *)
(* (src/game/engine.py) and the attempt runner (src/benchmark/attempt.py). *)
(*                                                                         *)
(* Python strings are sequences of one-character strings, so that lower(), *)
(* replace(), strip(), startswith(), split() and rstrip() are computed     *)
(* character by character as the code computes them.                       *)
(***************************************************************************)
EXTENDS Integers, Sequences, FiniteSets, TLC

(***************************************************************************)
(* Python str primitives.                                                  *)
(***************************************************************************)

\* Optional values: None is the empty tuple, a value v is <<v>>.
None == <<>>

Some(v) == <<v>>

IsNone(o) == Len(o) = 0

Get(o) == o[1]

UpperChars == <<"A","B","C","D","E","F","G","H","I","J","K","L","M",
                "N","O","P","Q","R","S","T","U","V","W","X","Y","Z">>

LowerChars == <<"a","b","c","d","e","f","g","h","i","j","k","l","m",
                "n","o","p","q","r","s","t","u","v","w","x","y","z">>

WhitespaceChars == {" ", "\t", "\n"}

\* str.lower() on one character (ASCII letters).
LowerChar(c) ==
    IF \E i \in 1..Len(UpperChars) : UpperChars[i] = c
    THEN LowerChars[CHOOSE i \in 1..Len(UpperChars) : UpperChars[i] = c]
    ELSE c

\* s.lower()
Lower(s) == [i \in 1..Len(s) |-> LowerChar(s[i])]

\* s.replace(a, b) for single characters a, b
ReplaceChar(s, a, b) == [i \in 1..Len(s) |-> IF s[i] = a THEN b ELSE s[i]]

\* s.strip()
Strip(s) ==
    LET keep == {i \in 1..Len(s) : s[i] \notin WhitespaceChars}
    IN  IF keep = {} THEN <<>>
        ELSE LET lo == CHOOSE i \in keep : \A j \in keep : i <= j
                 hi == CHOOSE i \in keep : \A j \in keep : j <= i
             IN  SubSeq(s, lo, hi)

\* s.rstrip(c) for a single character c
RStripChar(s, c) ==
    LET keep == {i \in 1..Len(s) : s[i] # c}
    IN  IF keep = {} THEN <<>>
        ELSE SubSeq(s, 1, CHOOSE i \in keep : \A j \in keep : j <= i)

\* s.startswith(p)
StartsWith(s, p) == Len(s) >= Len(p) /\ SubSeq(s, 1, Len(p)) = p

\* The positions where p occurs in s.
Occurrences(s, p) ==
    {i \in 1..(Len(s) - Len(p) + 1) : SubSeq(s, i, i + Len(p) - 1) = p}

\* p in s
Contains(s, p) == Occurrences(s, p) # {}

\* s.split(p)[0]
SplitFirst(s, p) ==
    IF ~Contains(s, p) THEN s
    ELSE LET i == CHOOSE k \in Occurrences(s, p) :
                      \A j \in Occurrences(s, p) : k <= j
         IN  SubSeq(s, 1, i - 1)

\* s.split(p)[-1]
SplitLast(s, p) ==
    IF ~Contains(s, p) THEN s
    ELSE LET i == CHOOSE k \in Occurrences(s, p) :
                      \A j \in Occurrences(s, p) : j <= k
         IN  SubSeq(s, i + Len(p), Len(s))

\* s[n:]
DropFirst(s, n) == SubSeq(s, n + 1, Len(s))

(***************************************************************************)
(* Title normalization: the key of an article.                             *)
(***************************************************************************)

\* A mutant of the normalization: the case is kept.
NormalizeTitleKeepCase(title) == Strip(ReplaceChar(title, "_", " "))

\* PathFinder._normalize_title and the normalize() of
\* WikiGameEngine._titles_match: title.lower().replace("_", " ").strip()
NormalizeTitle(title) == Strip(ReplaceChar(Lower(title), "_", " "))

\* WikiGameEngine._titles_match
TitlesMatch(title1, title2) == NormalizeTitle(title1) = NormalizeTitle(title2)

(***************************************************************************)
(* URLs (src/wikipedia/links.py).                                          *)
(***************************************************************************)

WikiRel == <<"/","w","i","k","i","/">>

WikiHost == <<"/","/","e","n",".","w","i","k","i","p","e","d","i","a",".","o","r","g">>

WikiProtoRel == WikiHost \o WikiRel

WikiHttps == <<"h","t","t","p","s",":">> \o WikiProtoRel

WikiHttp == <<"h","t","t","p",":">> \o WikiProtoRel

\* config.WIKIPEDIA_BASE_URL
WIKIPEDIA_BASE_URL == WikiHttps

\* The special_prefixes of normalize_wikipedia_url.
SpecialPrefixes == {
    <<"S","p","e","c","i","a","l",":">>,
    <<"W","i","k","i","p","e","d","i","a",":">>,
    <<"H","e","l","p",":">>,
    <<"C","a","t","e","g","o","r","y",":">>,
    <<"P","o","r","t","a","l",":">>,
    <<"T","e","m","p","l","a","t","e",":">>,
    <<"T","e","m","p","l","a","t","e","_","t","a","l","k",":">>,
    <<"T","a","l","k",":">>,
    <<"U","s","e","r",":">>,
    <<"U","s","e","r","_","t","a","l","k",":">>,
    <<"F","i","l","e",":">>,
    <<"M","e","d","i","a","W","i","k","i",":">>,
    <<"M","o","d","u","l","e",":">>,
    <<"D","r","a","f","t",":">> }

\* The percent escapes urllib.parse.unquote decodes, for the characters of
\* the model's alphabet.
PercentEscapes == {
    <<<<"%","2","0">>, " ">>,
    <<<<"%","5","F">>, "_">>,
    <<<<"%","2","3">>, "#">>,
    <<<<"%","2","F">>, "/">> }

RECURSIVE Unquote(_)
\* urllib.parse.unquote
Unquote(s) ==
    IF s = <<>> THEN <<>>
    ELSE IF \E e \in PercentEscapes : StartsWith(s, e[1])
         THEN LET e == CHOOSE x \in PercentEscapes : StartsWith(s, x[1])
              IN  <<e[2]>> \o Unquote(DropFirst(s, 3))
         ELSE <<Head(s)>> \o Unquote(Tail(s))

\* strip_title_attribute (links.py and parser.py hold the same function)
StripTitleAttribute(href) ==
    IF Contains(href, <<" ", "\"">>) THEN Strip(SplitFirst(href, <<" ", "\"">>))
    ELSE IF Contains(href, <<" ", "'">>) THEN Strip(SplitFirst(href, <<" ", "'">>))
    ELSE Strip(href)

\* normalize_wikipedia_url: the article title of a URL, or None
NormalizeWikipediaUrl(href) ==
    LET prefixed ==
            IF StartsWith(href, WikiRel) THEN Some(DropFirst(href, 6))
            ELSE IF StartsWith(href, WikiProtoRel) THEN Some(DropFirst(href, 24))
            ELSE IF StartsWith(href, WikiHttps) THEN Some(DropFirst(href, 30))
            ELSE IF StartsWith(href, WikiHttp) THEN Some(DropFirst(href, 29))
            ELSE None
    IN  IF IsNone(prefixed) THEN None
        ELSE LET title == SplitFirst(Get(prefixed), <<"#">>)
             IN  IF title = <<>> THEN None
                 ELSE IF \E p \in SpecialPrefixes : StartsWith(title, p) THEN None
                 ELSE IF StartsWith(title, <<"/","/">>)
                         \/ StartsWith(title, <<"h","t","t","p">>) THEN None
                 ELSE Some(ReplaceChar(Unquote(title), "_", " "))

\* urllib.parse.urlparse(url).path, for URLs without params: the scheme and
\* the //netloc are removed, the path ends at the first "?" or "#".
UrlPath(url) ==
    LET noscheme ==
            IF StartsWith(url, <<"h","t","t","p","s",":">>) THEN DropFirst(url, 6)
            ELSE IF StartsWith(url, <<"h","t","t","p",":">>) THEN DropFirst(url, 5)
            ELSE url
        nofrag == SplitFirst(SplitFirst(noscheme, <<"#">>), <<"?">>)
    IN  IF StartsWith(nofrag, <<"/","/">>)
        THEN LET rest == DropFirst(nofrag, 2)
             IN  IF Contains(rest, <<"/">>)
                 THEN DropFirst(rest, Len(SplitFirst(rest, <<"/">>)))
                 ELSE <<>>
        ELSE nofrag

\* title_from_url
TitleFromUrl(url) ==
    LET normalized == NormalizeWikipediaUrl(url)
    IN  IF IsNone(normalized)
        THEN LET path == UrlPath(url)
             IN  IF Contains(path, WikiRel)
                 THEN SplitFirst(ReplaceChar(Unquote(SplitLast(path, WikiRel)), "_", " "),
                                 <<"#">>)
                 ELSE url
        ELSE Get(normalized)

(***************************************************************************)
(* The article graph: the environment behind WikipediaAPI.  An article is  *)
(* identified by its normalization key; get_page_links answers with the    *)
(* titles as the site spells them.  A graph is named by an identifier.     *)
(***************************************************************************)

Dog == <<"D","o","g">>

Cat == <<"C","a","t">>

RedFox == <<"R","e","d"," ","F","o","x">>

Bat == <<"B","a","t">>

Animal == <<"A","n","i","m","a","l">>

Bird == <<"B","i","r","d">>

Hub == <<"H","u","b">>

Goal == <<"G","o","a","l">>

DigitChars == <<"0","1","2","3","4","5","6","7","8","9">>

\* The number of leaves of the star graphs; more than max_pages.
NumLeaves == 104

\* The length of the chain graph; more than the largest max_depth.
ChainLen == 11

\* The title of leaf i of a star graph: "L" and three digits.
Leaf(i) == <<"L", DigitChars[(i \div 100) + 1], DigitChars[((i \div 10) % 10) + 1],
             DigitChars[(i % 10) + 1]>>

\* The title of node i of the chain graph: "N" and two digits.
Node(i) == <<"N", DigitChars[(i \div 10) + 1], DigitChars[(i % 10) + 1]>>

\* The reverse of a sequence.
Reverse(s) == [i \in 1..Len(s) |-> s[Len(s) + 1 - i]]

\* The articles' outgoing links, by graph and normalization key, in the
\* order the site lists them.
LinksOf(g, key) ==
    CASE g = "pets" ->
           (CASE key = NormalizeTitle(Dog) -> <<Cat, RedFox>>
              [] key = NormalizeTitle(Cat) -> <<Animal, Dog>>
              [] key = NormalizeTitle(RedFox) -> <<Bat>>
              [] key = NormalizeTitle(Bat) -> <<Animal>>
              [] OTHER -> <<>>)
      [] g = "chain" ->
           IF \E i \in 0..(ChainLen - 1) : key = NormalizeTitle(Node(i))
           THEN <<Node((CHOOSE i \in 0..(ChainLen - 1) : key = NormalizeTitle(Node(i))) + 1)>>
           ELSE <<>>
      [] g \in {"star", "rats"} ->
           LET leaves == [i \in 1..NumLeaves |-> Leaf(i)]
           IN  CASE key = NormalizeTitle(Hub) ->
                      IF g = "star" THEN leaves ELSE Reverse(leaves)
                 [] key = NormalizeTitle(Leaf(NumLeaves)) -> <<Goal>>
                 [] OTHER -> <<>>
      [] OTHER -> <<>>

\* The titles of the articles of a graph.
ArticlesOf(g) ==
    CASE g = "pets" -> {Dog, Cat, RedFox, Bat, Animal}
      [] g = "chain" -> {Node(i) : i \in 0..ChainLen}
      [] g \in {"star", "rats"} -> {Hub, Goal} \cup {Leaf(i) : i \in 1..NumLeaves}
      [] OTHER -> {}

\* WikipediaAPI.get_page_links: the titles a successful request returns
\* (an article the site does not know has no "links" entry).
GetPageLinks(g, title) == LinksOf(g, NormalizeTitle(title))

(***************************************************************************)
(* PathFinder: the link cache and the breadth-first search.                *)
(***************************************************************************)

\* pathfinder.py:86, max_pages
max_pages == 100

\* pathfinder.py:48, the default max_depth of compute_shortest_path
DefaultMaxDepth == 5

\* pathfinder.py:111, the default max_depth of get_remaining_distance
RemainingMaxDepth == 10

\* pathfinder.py:108, the "no path found" value
Sentinel == 999

\* PathFinder.__init__: empty caches; requests counts the calls of
\* api.get_page_links the finder has made.
NewFinder == [links_cache |-> <<>>, title_case_cache |-> <<>>, requests |-> 0]

\* d[k] = v on a dict
Put(d, k, v) == (k :> v) @@ d

\* The loop of _get_links over the links of a response: link_set (a set,
\* iterated in insertion order) and the title-case cache, where the last
\* spelling of a key stays.
AddLinks(links, tcc) ==
    LET norm == [i \in 1..Len(links) |-> <<i, NormalizeTitle(links[i])>>]
        IsFirst(p) == \A j \in 1..(p[1] - 1) : norm[j][2] # p[2]
        firsts == SelectSeq(norm, IsFirst)
        IsLast(p) == \A j \in (p[1] + 1)..Len(links) : norm[j][2] # p[2]
        lasts == SelectSeq(norm, IsLast)
    IN  [link_set |-> [r \in 1..Len(firsts) |-> firsts[r][2]],
         tcc |-> [k \in {lasts[r][2] : r \in 1..Len(lasts)} |->
                     links[(CHOOSE r \in 1..Len(lasts) : lasts[r][2] = k)]]
                 @@ tcc]

\* PathFinder._get_links after its request (pathfinder.py:30-37): the links
\* added are cached under the key.
CacheLinks(finder, normalized, added) ==
    [finder |-> [links_cache |-> Put(finder.links_cache, normalized, added.link_set),
                 title_case_cache |-> added.tcc,
                 requests |-> finder.requests + 1],
     links |-> added.link_set]

\* PathFinder._get_links on a successful request: the finder afterwards and
\* the link set returned.
GetLinks(g, finder, title) ==
    LET normalized == NormalizeTitle(title)
    IN  IF normalized \in DOMAIN finder.links_cache
        THEN [finder |-> finder, links |-> finder.links_cache[normalized]]
        ELSE CacheLinks(finder, normalized,
                        AddLinks(GetPageLinks(g, title), finder.title_case_cache))

\* PathFinder._get_original_title
GetOriginalTitle(finder, normalized) ==
    IF normalized \in DOMAIN finder.title_case_cache
    THEN finder.title_case_cache[normalized] ELSE normalized

\* compute_shortest_path up to its while loop (pathfinder.py:63-86).
StartQuery(finder, start_title, target_title, max_depth) ==
    LET start == NormalizeTitle(start_title)
        target == NormalizeTitle(target_title)
        q == [pc |-> "loop", start_title |-> start_title, target_title |-> target_title,
              max_depth |-> max_depth, target |-> target,
              visited |-> <<>>, queue |-> <<>>, pages_explored |-> 0,
              expanded |-> <<>>, result |-> -1, finder |-> finder]
    IN  IF start = target
        THEN [q EXCEPT !.pc = "done", !.result = 0]
        ELSE [q EXCEPT !.visited = (start :> 0),
                       !.queue = << <<start_title, 0>> >>,
                       !.finder.title_case_cache =
                           Put(Put(finder.title_case_cache, start, start_title),
                               target, target_title)]

\* The for loop over the links of the article popped at `depth`
\* (pathfinder.py:98-106): it returns at the target, and up to there it
\* marks and queues every link not visited yet.
ScanLinks(q, links, depth) ==
    LET hits == {i \in 1..Len(links) : links[i] = q.target}
        seen == IF hits = {} THEN links
                ELSE SubSeq(links, 1, (CHOOSE i \in hits : \A j \in hits : i <= j) - 1)
        IsNew(k) == k \notin DOMAIN q.visited
        fresh == SelectSeq(seen, IsNew)
        q1 == [q EXCEPT !.visited = [k \in {fresh[r] : r \in 1..Len(fresh)} |-> depth + 1] @@ @,
                        !.queue = @ \o [r \in 1..Len(fresh) |->
                                          <<GetOriginalTitle(q.finder, fresh[r]), depth + 1>>]]
    IN  IF hits = {} THEN q1
        ELSE [q1 EXCEPT !.pc = "done", !.result = depth + 1]

\* A mutant of the queue discipline: the newest entry is taken (a stack).
PopLast(queue) == [item |-> queue[Len(queue)], rest |-> SubSeq(queue, 1, Len(queue) - 1)]

\* queue.popleft()
PopLeft(queue) == [item |-> Head(queue), rest |-> Tail(queue)]

\* A mutant of the while condition: the page cap is off by one.
LoopContinuesOneMore(q) == q.queue # <<>> /\ q.pages_explored <= max_pages

\* The while condition of the search (pathfinder.py:88).
LoopContinues(q) == q.queue # <<>> /\ q.pages_explored < max_pages

\* The entry the next iteration pops expands an article (it is below max_depth).
WillExpand(q) == LoopContinues(q) /\ PopLeft(q.queue).item[2] < q.max_depth

\* The next expansion asks the site (the article's links are not cached).
WillRequest(q) ==
    /\ WillExpand(q)
    /\ NormalizeTitle(PopLeft(q.queue).item[1]) \notin DOMAIN q.finder.links_cache

\* The article popped at `depth` is expanded with the links got
\* (pathfinder.py:94-106).
Expand(q, got, depth) ==
    ScanLinks([q EXCEPT !.pages_explored = q.pages_explored + 1,
                        !.expanded = Append(q.expanded, depth),
                        !.finder = got.finder],
              got.links, depth)

\* One test of the while condition and, when it holds, one iteration of the
\* loop (pathfinder.py:88-108), the request for the links succeeding.
\* expanded records the depth of each article expanded.
SearchStep(g, q) ==
    IF ~LoopContinues(q) THEN [q EXCEPT !.pc = "done", !.result = Sentinel]
    ELSE LET popped == PopLeft(q.queue)
             current_title == popped.item[1]
             depth == popped.item[2]
             q1 == [q EXCEPT !.queue = popped.rest]
         IN  IF depth >= q.max_depth THEN q1
             ELSE Expand(q1, GetLinks(g, q.finder, current_title), depth)

RECURSIVE RunSearch(_, _)
\* The while loop run to its end, no request failing.
RunSearch(g, q) == IF q.pc = "done" THEN q ELSE RunSearch(g, SearchStep(g, q))

\* compute_shortest_path, no request failing: the query at its return.
ComputeShortestPath(g, finder, start_title, target_title, max_depth) ==
    RunSearch(g, StartQuery(finder, start_title, target_title, max_depth))

\* get_remaining_distance
GetRemainingDistance(g, finder, current_title, target_title) ==
    ComputeShortestPath(g, finder, current_title, target_title, RemainingMaxDepth)

\* A mutant of classify_step: an increase by one hop counts as neutral.
ClassifyStepLenient(distance_before, distance_after) ==
    IF distance_after < distance_before THEN "forward"
    ELSE IF distance_after > distance_before + 1 THEN "backwards"
    ELSE "neutral"

\* PathFinder.classify_step
ClassifyStep(distance_before, distance_after) ==
    IF distance_after < distance_before THEN "forward"
    ELSE IF distance_after > distance_before THEN "backwards"
    ELSE "neutral"

(***************************************************************************)
(* Markdown: texts are strings; LINK_PATTERN \[([^\]]+)\]\(([^)]+)\) finds *)
(* the link constructs [text](href) in them.                               *)
(***************************************************************************)

\* The text of a link construct, as f"[{text}]({href})" writes it.
Link(text, href) == <<"[">> \o text \o <<"]", "(">> \o href \o <<")">>

\* The first index from `from` on where s holds c; 0 if there is none.
FirstIndex(s, c, from) ==
    LET hits == {j \in from..Len(s) : s[j] = c}
    IN  IF hits = {} THEN 0 ELSE CHOOSE j \in hits : \A k \in hits : j <= k

\* LINK_PATTERN matched at index i of s: the two groups and the index of the
\* closing parenthesis, or None.  The text runs to the first "]", which "("
\* must follow; the href runs to the first ")"; neither is empty.
MatchAt(s, i) ==
    IF s[i] # "[" THEN None
    ELSE LET j == FirstIndex(s, "]", i + 1)
         IN  IF j = 0 \/ j = i + 1 \/ j + 1 > Len(s) THEN None
             ELSE IF s[j + 1] # "(" THEN None
             ELSE LET k == FirstIndex(s, ")", j + 2)
                  IN  IF k = 0 \/ k = j + 2 THEN None
                      ELSE Some([text |-> SubSeq(s, i + 1, j - 1),
                                 href |-> SubSeq(s, j + 2, k - 1),
                                 end |-> k])

\* LINK_PATTERN.findall: the link constructs of a text, in order.  from[pos]
\* is the matches from index pos on: leftmost first, each search resuming
\* after the match before.
FindAllLinks(markdown) ==
    LET from[pos \in 1..(Len(markdown) + 1)] ==
            LET starts == {i \in pos..Len(markdown) : ~IsNone(MatchAt(markdown, i))}
            IN  IF starts = {} THEN <<>>
                ELSE LET i == CHOOSE x \in starts : \A y \in starts : x <= y
                         m == Get(MatchAt(markdown, i))
                     IN  <<[text |-> m.text, href |-> m.href]>> \o from[m.end + 1]
    IN  from[1]

\* "wikipedia.org"
WikipediaOrg == <<"w","i","k","i","p","e","d","i","a",".","o","r","g">>

\* parser.parse_response: Some(<<text, href>>) or None
ParseResponse(response) ==
    LET LooksLikeWikipedia(m) ==
            Contains(m.href, WikipediaOrg) \/ StartsWith(m.href, WikiRel)
        Parsed(m) == Some(<<m.text, StripTitleAttribute(m.href)>>)
        First(lenient) == IF lenient # <<>> THEN Parsed(lenient[1]) ELSE None
        Pick(matches) ==
            IF Len(matches) = 1 THEN Parsed(matches[1])
            ELSE First(SelectSeq(matches, LooksLikeWikipedia))
    IN  Pick(FindAllLinks(Strip(response)))

\* links.extract_links_from_markdown: the <<text, href>> of the article links
ExtractLinksFromMarkdown(markdown) ==
    LET Valid(m) ==
            /\ Strip(m.text) # <<>>
            /\ Strip(m.href) # <<>>
            /\ ~IsNone(NormalizeWikipediaUrl(StripTitleAttribute(m.href)))
        links == {[i \in 1..Len(kept) |-> <<kept[i].text, StripTitleAttribute(kept[i].href)>>] :
                     kept \in {SelectSeq(FindAllLinks(markdown), Valid)}}
    IN  CHOOSE l \in links : TRUE

(***************************************************************************)
(* The site's pages: what fetch_article_markdown returns for an article.   *)
(***************************************************************************)

ExternalUrl == <<"h","t","t","p","s",":","/","/","x",".","i","o">>

HelpUrl == WikiRel \o <<"H","e","l","p",":","C">>

\* The href the site writes for an article: relative, underscores for spaces.
HrefOf(title) == WikiRel \o ReplaceChar(title, " ", "_")

RECURSIVE ConcatAll(_)
\* "".join(parts)
ConcatAll(parts) == IF parts = <<>> THEN <<>> ELSE Head(parts) \o ConcatAll(Tail(parts))

\* The markdown of an article's page: its title, then a link with a title
\* attribute for each outgoing link, a help link and an external link.
ArticleMarkdown(g, title) ==
    LET TitledLink(l) == Link(l, HrefOf(l) \o <<" ", "\"">> \o l \o <<"\"">>)
        Page(links) ==
            title
            \o ConcatAll([i \in 1..Len(links) |-> <<" ">> \o TitledLink(links[i])])
            \o <<" ">> \o Link(<<"H","e","l","p">>, HelpUrl)
            \o <<" ">> \o Link(<<"e","x","t">>, ExternalUrl)
    IN  Page(LinksOf(g, NormalizeTitle(title)))

\* The site has a page for the title.
ArticleExists(g, title) ==
    \E t \in ArticlesOf(g) : NormalizeTitle(t) = NormalizeTitle(title)

(***************************************************************************)
(* WikiGameEngine.play (src/game/engine.py).                               *)
(***************************************************************************)

\* config.MAX_CLICKS
MAX_CLICKS == 30

\* engine.py:44, the default of max_retries
max_retries == 3

\* The set valid_urls of the page (engine.py:80).
ValidUrls(valid_links) == {valid_links[i][2] : i \in 1..Len(valid_links)}

\* A mutant of the validation: the parsed target is taken as it is.
ChosenLinksUnchecked(parsed, valid_urls) == {<<parsed[1], parsed[2]>>}

\* The validation of a parsed response (engine.py:107-122): the links
\* chosen_link may end as; none when the response is rejected.  When several
\* on-page targets match after stripping, the set's iteration decides.
ChosenLinks(parsed, valid_urls) ==
    LET link_text == parsed[1]
        link_url == parsed[2]
        normalized_url == RStripChar(link_url, "/")
    IN  IF link_url \in valid_urls THEN {<<link_text, link_url>>}
        ELSE {<<link_text, valid_url>> :
                 valid_url \in {v \in valid_urls : RStripChar(v, "/") = normalized_url}}

\* The GameStep of a move (engine.py:128-140); the timestamp is left out.
GameStep(click_num, current_title, current_url, chosen_link) ==
    [step_index |-> click_num,
     current_page_title |-> current_title,
     current_page_url |-> current_url,
     chosen_link_markdown |-> Link(chosen_link[1], chosen_link[2]),
     chosen_target_title |-> TitleFromUrl(chosen_link[2]),
     chosen_target_url |-> chosen_link[2]]

\* play's locals at its start (engine.py:59-67), waiting for the first page.
StartGame(start_title, target_title) ==
    [pc |-> "awaiting_content", start_title |-> start_title, target_title |-> target_title,
     current_title |-> start_title,
     current_url |-> WIKIPEDIA_BASE_URL \o ReplaceChar(start_title, " ", "_"),
     path |-> <<start_title>>, steps |-> <<>>, click_num |-> 0, retry |-> 0,
     valid_links |-> <<>>, response |-> <<>>,
     result |-> [solved |-> FALSE, total_clicks |-> 0, steps |-> <<>>, path |-> <<>>]]

\* The return after the loop (engine.py:159-167): not solved.
ReturnUnsolved(gm) ==
    [gm EXCEPT !.pc = "returned",
               !.result = [solved |-> FALSE, total_clicks |-> Len(gm.steps),
                           steps |-> gm.steps, path |-> gm.path]]

\* A mutant of the move: the step and the path are recorded and the game
\* stays on the page it was on.
MovedInPlace(gm, step) ==
    [gm EXCEPT !.steps = Append(gm.steps, step),
               !.path = Append(gm.path, step.chosen_target_title),
               !.response = <<>>,
               !.retry = 0]

\* The step is recorded and the position moves (engine.py:128-146).
Moved(gm, step) ==
    [gm EXCEPT !.steps = Append(gm.steps, step),
               !.current_title = step.chosen_target_title,
               !.current_url = step.chosen_target_url,
               !.path = Append(gm.path, step.chosen_target_title),
               !.response = <<>>,
               !.retry = 0]

\* The goal check (engine.py:149-157) after the move from gm to moved.
Solved(gm, moved) ==
    [moved EXCEPT !.pc = "returned",
                  !.result = [solved |-> TRUE, total_clicks |-> gm.click_num + 1,
                              steps |-> moved.steps, path |-> moved.path]]

\* A mutant of the move: the loop goes on for one click more.
AdvanceOneMore(gm, chosen_link) ==
    LET AfterMove(moved) ==
            IF TitlesMatch(moved.current_title, gm.target_title)
            THEN Solved(gm, moved)
            ELSE IF gm.click_num + 1 <= MAX_CLICKS
                 THEN [moved EXCEPT !.pc = "awaiting_content", !.click_num = gm.click_num + 1]
                 ELSE ReturnUnsolved(moved)
    IN  AfterMove(Moved(gm, GameStep(gm.click_num, gm.current_title, gm.current_url,
                                     chosen_link)))

\* A mutant of the failed fetch: the loop goes on to the next click and
\* fetches again.
FetchFailedContinue(gm) ==
    IF gm.click_num + 1 < MAX_CLICKS
    THEN [gm EXCEPT !.pc = "awaiting_content", !.click_num = gm.click_num + 1]
    ELSE ReturnUnsolved(gm)

\* The fetch raises or the page is empty (engine.py:71-76): the loop is left
\* and play returns.
FetchFailed(gm) == ReturnUnsolved(gm)

\* The move along chosen_link (engine.py:128-157): the step is recorded, the
\* position moves, and play returns solved at the target; otherwise the for
\* loop goes on to the next click, or ends at MAX_CLICKS.
Advance(gm, chosen_link) ==
    LET AfterMove(moved) ==
            IF TitlesMatch(moved.current_title, gm.target_title)
            THEN Solved(gm, moved)
            ELSE IF gm.click_num + 1 < MAX_CLICKS
                 THEN [moved EXCEPT !.pc = "awaiting_content", !.click_num = gm.click_num + 1]
                 ELSE ReturnUnsolved(moved)
    IN  AfterMove(Moved(gm, GameStep(gm.click_num, gm.current_title, gm.current_url,
                                     chosen_link)))

\* A mutant of the retry loop: one answer more is asked for.
RejectOneMore(gm) ==
    IF gm.retry + 1 <= max_retries
    THEN [gm EXCEPT !.pc = "awaiting_decision", !.retry = gm.retry + 1, !.response = <<>>]
    ELSE [gm EXCEPT !.pc = "returned", !.response = <<>>,
                    !.result = [solved |-> FALSE, total_clicks |-> Len(gm.steps),
                                steps |-> gm.steps, path |-> gm.path]]

\* A mutant of the retry: the page is fetched again before the policy is
\* asked again.
RejectRefetch(gm) ==
    IF gm.retry + 1 < max_retries
    THEN [gm EXCEPT !.pc = "awaiting_content", !.retry = gm.retry + 1, !.response = <<>>]
    ELSE ReturnUnsolved([gm EXCEPT !.response = <<>>])

\* A rejected response (engine.py:100-105 and the end of the retry loop's
\* body): the next retry asks again, and after max_retries the game is over.
Reject(gm) ==
    IF gm.retry + 1 < max_retries
    THEN [gm EXCEPT !.pc = "awaiting_decision", !.retry = gm.retry + 1, !.response = <<>>]
    ELSE ReturnUnsolved([gm EXCEPT !.response = <<>>])

\* The games that may follow a response (engine.py:100-157).
AfterResponse(gm) ==
    LET Validated(parsed) ==
            IF IsNone(parsed) THEN {}
            ELSE ChosenLinks(Get(parsed), ValidUrls(gm.valid_links))
        Chosen(chosen) ==
            IF chosen = {} THEN {Reject(gm)}
            ELSE {Advance(gm, c) : c \in chosen}
    IN  Chosen(Validated(ParseResponse(gm.response)))

(***************************************************************************)
(* AttemptRunner.run_attempt (src/benchmark/attempt.py) and the metrics.   *)
(***************************************************************************)

\* A mutant of the step metric: steps are numbered from one.
StepMetricsFromOne(step, distance_before, distance_after) ==
    [step_index |-> step.step_index + 1,
     remaining_distance_before |-> distance_before,
     remaining_distance_after |-> distance_after,
     step_direction |-> ClassifyStep(distance_before, distance_after)]

\* The StepMetrics of a step (attempt.py:103-110).
StepMetrics(step, distance_before, distance_after) ==
    [step_index |-> step.step_index,
     remaining_distance_before |-> distance_before,
     remaining_distance_after |-> distance_after,
     step_direction |-> ClassifyStep(distance_before, distance_after)]

\* A mutant of distance_before: every step's is searched afresh with
\* compute_shortest_path from the page the step left.
DistanceBeforeFresh(g, finder, start_title, target_title, steps, step_metrics) ==
    ComputeShortestPath(g, finder, steps[Len(step_metrics) + 1].current_page_title,
                        target_title, DefaultMaxDepth)

\* distance_before of the next step to score (attempt.py:90-97): searched
\* for the first step, the previous step's distance_after for the others.
\* The query at its return: its result and the finder afterwards.
DistanceBefore(g, finder, start_title, target_title, steps, step_metrics) ==
    IF step_metrics = <<>>
    THEN GetRemainingDistance(g, finder, start_title, target_title)
    ELSE [result |-> step_metrics[Len(step_metrics)].remaining_distance_after,
          finder |-> finder]

\* The metric of a step is appended (attempt.py:102-110); before and after
\* are the two distance queries at their return.
Scored(step, step_metrics, before, after) ==
    [step_metrics |-> Append(step_metrics,
                             StepMetrics(step, before.result, after.result)),
     finder |-> after.finder]

\* A mutant of distance_after: searched from the page the step left.
ScoreAfterFromSource(g, target_title, step, step_metrics, before) ==
    Scored(step, step_metrics, before,
           GetRemainingDistance(g, before.finder, step.current_page_title, target_title))

\* distance_after of a step (attempt.py:99-100), searched from its target
\* with the finder distance_before left.
ScoreAfter(g, target_title, step, step_metrics, before) ==
    Scored(step, step_metrics, before,
           GetRemainingDistance(g, before.finder, step.chosen_target_title, target_title))

\* One iteration of the scoring loop (attempt.py:88-110), no request
\* failing: the metrics with the next step's appended, and the finder.
ScoreNextStep(g, finder, start_title, target_title, steps, step_metrics) ==
    ScoreAfter(g, target_title, steps[Len(step_metrics) + 1], step_metrics,
               DistanceBefore(g, finder, start_title, target_title, steps, step_metrics))

\* total_clicks of the AttemptMetrics (attempt.py:119).
AttemptTotalClicks(result) == IF result.solved THEN result.total_clicks ELSE MAX_CLICKS

\* The AttemptMetrics run_attempt returns (attempt.py:113-122).
AttemptMetrics(start_title, target_title, result, best_path_length, step_metrics) ==
    [start_title |-> start_title, target_title |-> target_title,
     solved |-> result.solved,
     total_clicks |-> AttemptTotalClicks(result),
     best_path_length |-> best_path_length,
     steps |-> step_metrics]

\* A mutant of the effective cost: the moves made, solved or not.
EffectiveClicksMoves(attempt) == Len(attempt.steps)

\* AttemptMetrics.effective_clicks (metrics.py:32-37)
EffectiveClicks(attempt) == IF attempt.solved THEN attempt.total_clicks ELSE MAX_CLICKS

(***************************************************************************)
(* State.                                                                  *)
(***************************************************************************)

VARIABLES
    graph,   \* the article graph the site serves
    bfs,     \* a PathFinder and the shortest-path query it is running
    game,    \* WikiGameEngine.play: its locals and its position
    run,     \* AttemptRunner.run_attempt: its locals and its position
    call,    \* a pure function's arguments and result
    api,     \* WikipediaAPI: its semaphore and the calls running on it
    chat,    \* chat_completion: a call under its retry decorator
    metrics,     \* BenchmarkMetrics: the attempts added and the statistics
    batch,       \* BenchmarkOrchestrator.run_benchmark: its tasks and its position
    pathfinder   \* the PathFinder of a benchmark run and the calls running on it

\* The clients of the two remote services.
remote == <<api, chat>>

\* The state of a benchmark run.
benchmark == <<metrics, batch, pathfinder>>

vars == <<graph, bfs, game, run, call, api, chat, metrics, batch, pathfinder>>

\* No query running on a finder.
IdleQuery(finder) ==
    [pc |-> "idle", start_title |-> <<>>, target_title |-> <<>>, max_depth |-> 0,
     target |-> <<>>, visited |-> <<>>, queue |-> <<>>, pages_explored |-> 0,
     expanded |-> <<>>, result |-> -1, finder |-> finder]

\* play not called.
IdleGame == [StartGame(<<>>, <<>>) EXCEPT !.pc = "idle", !.path = <<>>, !.current_url = <<>>]

\* run_attempt not called.
IdleRun ==
    [pc |-> "idle", start_title |-> <<>>, target_title |-> <<>>, best_path_length |-> -1,
     finder |-> NewFinder, step_metrics |-> <<>>,
     attempt |-> [start_title |-> <<>>, target_title |-> <<>>, solved |-> FALSE,
                  total_clicks |-> 0, best_path_length |-> -1, steps |-> <<>>]]

\* No pure function called.
IdleCall == [pc |-> "idle"]

\* No WikipediaAPI in use.
NoAPI == [value |-> 0, callers |-> <<>>]

\* chat_completion not called.
IdleChat == [pc |-> "idle"]

\* No BenchmarkMetrics.
NoMetrics == [pc |-> "idle"]

\* run_benchmark not called.
IdleBatch == [pc |-> "idle"]

\* No PathFinder of a benchmark run.
NoPathFinder == [pc |-> "idle"]

(***************************************************************************)
(* SpecBFS: shortest-path queries, one after another, on one PathFinder.   *)
(***************************************************************************)

\* The largest max_depth tried besides the defaults of the code.
MaxDepthInput == 2

\* The number of queries one finder serves.
MaxQueries == 2

\* The max_depth values of the queries.
DepthInputs == (0..MaxDepthInput) \cup {DefaultMaxDepth, RemainingMaxDepth}

\* Spellings of a title with the same normalization key.
Spellings(title) ==
    {title, Lower(title), ReplaceChar(title, " ", "_"), <<" ">> \o title \o <<" ">>}

\* The (start, target) pairs of the queries on a graph.
QueryPairs(g) ==
    CASE g = "pets" ->
           ({Dog, Cat, RedFox, Animal} \X {Animal, Dog, Bird})
           \cup (Spellings(RedFox) \X Spellings(RedFox))
           \cup ({Lower(Dog)} \X Spellings(Animal))
      [] g = "chain" -> {Node(0), Node(ChainLen - RemainingMaxDepth)} \X {Node(ChainLen), Node(2)}
      [] g \in {"star", "rats"} -> {Hub} \X {Goal, Leaf(1), Hub}
      [] OTHER -> {}

BFSGraphs == {"pets", "chain", "star", "rats"}

\* The number of queries the finder serves on a graph: one search of a star
\* graph fills the page budget.
QueryBudget(g) == IF g \in {"star", "rats"} THEN 1 ELSE MaxQueries

InitBFS ==
    /\ graph \in BFSGraphs
    /\ bfs = [IdleQuery(NewFinder) EXCEPT !.max_depth = 0]
    /\ game = IdleGame
    /\ run = IdleRun
    /\ call = [pc |-> "idle", queries |-> 0]
    /\ api = NoAPI
    /\ chat = IdleChat
    /\ metrics = NoMetrics
    /\ batch = IdleBatch
    /\ pathfinder = NoPathFinder

\* compute_shortest_path is called (get_remaining_distance is the call with
\* max_depth = RemainingMaxDepth) and runs up to its loop.
BFSCall ==
    /\ bfs.pc = "idle"
    /\ call.queries < QueryBudget(graph)
    /\ \E pair \in QueryPairs(graph), max_depth \in DepthInputs :
           bfs' = StartQuery(bfs.finder, pair[1], pair[2], max_depth)
    /\ call' = [call EXCEPT !.queries = @ + 1]
    /\ UNCHANGED <<remote, benchmark, graph, game, run>>

\* One iteration of the search loop, or its end.
BFSSearch ==
    /\ bfs.pc = "loop"
    /\ bfs' = SearchStep(graph, bfs)
    /\ UNCHANGED <<remote, benchmark, graph, game, run, call>>

\* api.get_page_links raises (WikipediaAPI.query gave up): the error leaves
\* compute_shortest_path.
BFSFetchError ==
    /\ bfs.pc = "loop"
    /\ WillRequest(bfs)
    /\ bfs' = [bfs EXCEPT !.pc = "raised",
                          !.queue = PopLeft(bfs.queue).rest,
                          !.pages_explored = @ + 1,
                          !.expanded = Append(@, PopLeft(bfs.queue).item[2]),
                          !.finder.requests = @ + 1]
    /\ UNCHANGED <<remote, benchmark, graph, game, run, call>>

\* The caller takes the result; the finder keeps its caches.
BFSReturn ==
    /\ bfs.pc \in {"done", "raised"}
    /\ bfs' = IdleQuery(bfs.finder)
    /\ UNCHANGED <<remote, benchmark, graph, game, run, call>>

NextBFS == BFSCall \/ BFSSearch \/ BFSFetchError \/ BFSReturn

SpecBFS == InitBFS /\ [][NextBFS]_vars

(***************************************************************************)
(* Properties of the shortest-path finder (SpecBFS).                       *)
(***************************************************************************)

\* The keys an article links to.
Successors(g, key) == {NormalizeTitle(LinksOf(g, key)[i]) : i \in 1..Len(LinksOf(g, key))}

RECURSIVE HopsFrom(_, _, _, _, _)
\* The least number of hops from the articles of `frontier` (all at d hops
\* from the source) to target, Sentinel when there is no path.
HopsFrom(g, frontier, seen, target, d) ==
    IF target \in frontier THEN d
    ELSE IF frontier = {} THEN Sentinel
    ELSE LET next == (UNION {Successors(g, k) : k \in frontier}) \ seen
         IN  HopsFrom(g, next, seen \cup next, target, d + 1)

\* The length of a shortest directed path between two keys of a graph.
ShortestHops(g, source, target) == HopsFrom(g, {source}, {source}, target, 0)

\* Two titles are spellings of one article: they differ in case, in
\* underscores for spaces, or in surrounding whitespace only.
SameArticle(t1, t2) ==
    \E base \in {Dog, Cat, RedFox, Bat, Animal, Bird, Hub, Goal} :
        /\ t1 \in Spellings(base) \cup Spellings(Lower(base))
        /\ t2 \in Spellings(base) \cup Spellings(Lower(base))

\* C6: whenever a query returns a distance other than the sentinel 999, that
\* distance is the length of a shortest directed path from the source to the
\* target in the link graph.
C6_ReturnedDistanceIsShortest ==
    (bfs.pc = "done" /\ bfs.result # Sentinel) =>
        bfs.result = ShortestHops(graph, NormalizeTitle(bfs.start_title),
                                  NormalizeTitle(bfs.target_title))

\* C6 witness: a query returned 2 on a graph that also holds a path of 3 hops
\* whose first article is queued behind the shorter path's.
C6_Witness ==
    /\ graph = "pets"
    /\ bfs.pc = "done"
    /\ bfs.start_title = Dog
    /\ bfs.target_title = Animal
    /\ bfs.result = 2

\* C7: a query between two spellings of one article returns 0 at once and
\* makes no request for links, whatever max_depth is (get_remaining_distance
\* is the call with max_depth = 10) and whatever the finder has cached.
C7_SameArticleIsZero ==
    [][(bfs.pc = "idle" /\ bfs'.pc # "idle"
            /\ SameArticle(bfs'.start_title, bfs'.target_title))
        => (bfs'.pc = "done" /\ bfs'.result = 0
            /\ bfs'.finder = bfs.finder)]_vars

\* C7 witness: a query between two different spellings of one article has
\* returned 0.
C7_Witness ==
    /\ bfs.pc = "done"
    /\ bfs.start_title # bfs.target_title
    /\ SameArticle(bfs.start_title, bfs.target_title)
    /\ bfs.max_depth = RemainingMaxDepth
    /\ bfs.result = 0
    /\ bfs.finder.requests = 0

\* The bounds a query keeps: at most max_pages articles expanded, each at a
\* depth below max_depth, and for start # target a result in 1..max_depth or
\* the sentinel.
C8_Bounds ==
    /\ bfs.pages_explored <= max_pages
    /\ Len(bfs.expanded) = bfs.pages_explored
    /\ \A i \in 1..Len(bfs.expanded) : bfs.expanded[i] < bfs.max_depth
    /\ (bfs.pc = "done"
          /\ NormalizeTitle(bfs.start_title) # NormalizeTitle(bfs.target_title))
       => (bfs.result = Sentinel \/ (1 <= bfs.result /\ bfs.result <= bfs.max_depth))

\* The keys of a graph's articles and of the titles queried on it.
KeysOf(g) ==
    {NormalizeTitle(t) : t \in ArticlesOf(g)}
    \cup {NormalizeTitle(p[1]) : p \in QueryPairs(g)}

\* The keys of each graph.
KeySets == [g \in BFSGraphs |-> KeysOf(g)]

\* The number of keys of each graph.
KeyCount == [g \in BFSGraphs |-> Cardinality(KeysOf(g))]

\* What is left of a search: two for each article not yet visited and one
\* for each queue entry.
Remaining(g, q) == 2 * (KeyCount[g] - Cardinality(DOMAIN q.visited)) + Len(q.queue)

\* C8: for start # target a query keeps the bounds C8_Bounds at every moment,
\* and it ends: every iteration of its loop either leaves the loop (a
\* distance, the sentinel, or a failed request for links) or leaves strictly
\* less to do, so the loop cannot run forever.
C8_BoundedSearchTerminates ==
    /\ [](C8_Bounds /\ DOMAIN bfs.visited \subseteq KeySets[graph])
    /\ [][bfs.pc = "loop" =>
            /\ bfs'.pc \in {"loop", "done", "raised"}
            /\ bfs'.pc = "loop" => Remaining(graph, bfs') < Remaining(graph, bfs)]_vars

\* C8 witness: a query gave up at the page cap with articles still queued,
\* and returned the sentinel.
C8_Witness ==
    /\ bfs.pc = "done"
    /\ bfs.result = Sentinel
    /\ bfs.pages_explored = max_pages
    /\ bfs.queue # <<>>
    /\ bfs.max_depth > 1

\* C8 also at the depth limit: a query returned the sentinel with page budget
\* left, having skipped an article at max_depth.
C8_DepthWitness ==
    /\ bfs.pc = "done"
    /\ bfs.result = Sentinel
    /\ bfs.pages_explored < max_pages
    /\ bfs.pages_explored = bfs.max_depth
    /\ bfs.max_depth = RemainingMaxDepth

(***************************************************************************)
(* Spec: one attempt, run_attempt playing one game and scoring its steps.  *)
(***************************************************************************)

\* orchestrator.py:80, the max_depth of the best paths computed beforehand
PeerPressureMaxDepth == 4

\* The <<start, target>> pairs of the attempts.
GamePairs(g) ==
    IF g = "pets"
    THEN {<<Dog, Animal>>, <<Dog, Bird>>, <<Dog, Lower(Dog)>>,
          <<ReplaceChar(RedFox, " ", "_"), Animal>>, <<Bird, Dog>>}
    ELSE {<<Node(ChainLen - RemainingMaxDepth), Node(ChainLen)>>,
          <<Node(0), Node(ChainLen)>>,
          <<Node(ChainLen - 1), Node(ChainLen)>>}

\* The texts a policy may answer on a page with these links.
Responses(valid_links) ==
    LET OffPage == Link(Bird, HrefOf(Bird))
        Elsewhere == Link(<<"e","x","t">>, ExternalUrl)
        Say == <<"g","o"," ">>
        OnPage(l) ==
            {Say \o Link(l[1], l[2]),
             Link(l[1], l[2] \o <<"/">>),
             Link(l[1], l[2] \o <<" ", "\"">> \o l[1] \o <<"\"">>),
             Link(l[1], WikiHttps \o DropFirst(l[2], Len(WikiRel))),
             Link(l[1], Lower(l[2])),
             Link(l[1], ReplaceChar(l[2], "_", " ")),
             Elsewhere \o <<" ">> \o Link(l[1], l[2])}
    IN  {<<>>, Say, OffPage, Elsewhere, Link(<<"H","e","l","p">>, HelpUrl)}
        \cup UNION {OnPage(valid_links[i]) : i \in 1..Len(valid_links)}

Init ==
    /\ graph \in {"pets", "chain"}
    /\ bfs = IdleQuery(NewFinder)
    /\ game = IdleGame
    /\ run = IdleRun
    /\ call = IdleCall
    /\ api = NoAPI
    /\ chat = IdleChat
    /\ metrics = NoMetrics
    /\ batch = IdleBatch
    /\ pathfinder = NoPathFinder

\* The best path run_attempt is given or computes (attempt.py:58-62): the
\* query at its return.  The orchestrator computes it beforehand with
\* PeerPressureMaxDepth on the same finder.
BestPath(g, finder, start_title, target_title, given) ==
    ComputeShortestPath(g, finder, start_title, target_title,
                        IF given THEN PeerPressureMaxDepth ELSE DefaultMaxDepth)

\* run_attempt is called, has its best path and calls play, which asks for
\* the start page (attempt.py:58-86, engine.py:59-71).
RunAttempt ==
    /\ run.pc = "idle"
    /\ \E pair \in GamePairs(graph), given \in BOOLEAN :
          \E best \in {BestPath(graph, run.finder, pair[1], pair[2], given)} :
              /\ run' = [run EXCEPT !.pc = "playing",
                                    !.start_title = pair[1],
                                    !.target_title = pair[2],
                                    !.best_path_length = best.result,
                                    !.finder = best.finder]
              /\ game' = StartGame(pair[1], pair[2])
    /\ UNCHANGED <<remote, benchmark, graph, bfs, call>>

\* A request of the best-path search fails: run_attempt raises before play.
BestPathFails ==
    /\ run.pc = "idle"
    /\ \E pair \in GamePairs(graph) :
          /\ BestPath(graph, run.finder, pair[1], pair[2], FALSE).finder.requests > 0
          /\ run' = [run EXCEPT !.pc = "raised",
                                !.start_title = pair[1],
                                !.target_title = pair[2]]
    /\ UNCHANGED <<remote, benchmark, graph, bfs, game, call>>

\* fetch_article_markdown returns the page (engine.py:69-93): its links are
\* extracted and the policy is asked.
FetchReturns ==
    /\ game.pc = "awaiting_content"
    /\ ArticleExists(graph, game.current_title)
    /\ \E markdown \in {ArticleMarkdown(graph, game.current_title)} :
          game' = [game EXCEPT !.pc = "awaiting_decision",
                               !.retry = 0,
                               !.valid_links = ExtractLinksFromMarkdown(markdown)]
    /\ UNCHANGED <<remote, benchmark, graph, bfs, run, call>>

\* fetch_article_markdown raises or returns nothing (engine.py:72-76): the
\* loop is left and play returns; run_attempt goes on to the scoring.
FetchFails ==
    /\ game.pc = "awaiting_content"
    /\ game' = FetchFailed(game)
    /\ run' = IF game'.pc = "returned" THEN [run EXCEPT !.pc = "scoring"] ELSE run
    /\ UNCHANGED <<remote, benchmark, graph, bfs, call>>

\* The policy's answer arrives.
PolicyResponds ==
    /\ game.pc = "awaiting_decision"
    /\ \E response \in Responses(game.valid_links) :
          game' = [game EXCEPT !.pc = "validating", !.response = response]
    /\ UNCHANGED <<remote, benchmark, graph, bfs, run, call>>

\* chat_completion raises (engine.py:94-98, outside any try): play and
\* run_attempt raise.
PolicyFails ==
    /\ game.pc = "awaiting_decision"
    /\ game' = [game EXCEPT !.pc = "raised"]
    /\ run' = [run EXCEPT !.pc = "raised"]
    /\ UNCHANGED <<remote, benchmark, graph, bfs, call>>

\* play handles the answer (engine.py:100-157): a move, a retry, or the end
\* of the game, after which run_attempt goes on to the scoring.
HandleResponse ==
    /\ game.pc = "validating"
    /\ \E next \in AfterResponse(game) :
          /\ game' = next
          /\ run' = IF next.pc = "returned" THEN [run EXCEPT !.pc = "scoring"] ELSE run
    /\ UNCHANGED <<remote, benchmark, graph, bfs, call>>

\* One iteration of the scoring loop (attempt.py:88-110).
ScoreStep ==
    /\ run.pc = "scoring"
    /\ Len(run.step_metrics) < Len(game.result.steps)
    /\ \E scored \in {ScoreNextStep(graph, run.finder, run.start_title, run.target_title,
                                      game.result.steps, run.step_metrics)} :
          run' = [run EXCEPT !.step_metrics = scored.step_metrics,
                             !.finder = scored.finder]
    /\ UNCHANGED <<remote, benchmark, graph, bfs, game, call>>

\* A request of a scoring search fails: run_attempt raises.
ScoreFails ==
    /\ run.pc = "scoring"
    /\ Len(run.step_metrics) < Len(game.result.steps)
    /\ ScoreNextStep(graph, run.finder, run.start_title, run.target_title,
                     game.result.steps, run.step_metrics).finder.requests
          > run.finder.requests
    /\ run' = [run EXCEPT !.pc = "raised"]
    /\ UNCHANGED <<remote, benchmark, graph, bfs, game, call>>

\* run_attempt returns the AttemptMetrics (attempt.py:112-122).
ReturnAttempt ==
    /\ run.pc = "scoring"
    /\ Len(run.step_metrics) = Len(game.result.steps)
    /\ run' = [run EXCEPT !.pc = "done",
                          !.attempt = AttemptMetrics(run.start_title, run.target_title,
                                                     game.result, run.best_path_length,
                                                     run.step_metrics)]
    /\ UNCHANGED <<remote, benchmark, graph, bfs, game, call>>

Next ==
    \/ RunAttempt
    \/ BestPathFails
    \/ FetchReturns
    \/ FetchFails
    \/ PolicyResponds
    \/ PolicyFails
    \/ HandleResponse
    \/ ScoreStep
    \/ ScoreFails
    \/ ReturnAttempt

Spec == Init /\ [][Next]_vars

(***************************************************************************)
(* Claims about the game and the attempt, checked under Spec.              *)
(***************************************************************************)

\* The article the game ended on: the last of the path, the start if no move
\* was made.
LastVisited == game.result.path[Len(game.result.path)]

\* The normalization key of the spec: lower case, underscores as spaces,
\* trimmed; two titles are compared letter by letter on it.
SameKey(t1, t2) ==
    Strip(ReplaceChar(Lower(t1), "_", " ")) = Strip(ReplaceChar(Lower(t2), "_", " "))

\* C1: a GameResult's and an Attempt's solved is true exactly when the last
\* article visited (the start if no move was made) has the target's
\* normalization key.
C1_SolvedIffAtTarget ==
    /\ game.pc = "returned" =>
          (game.result.solved <=> SameKey(LastVisited, game.target_title))
    /\ run.pc = "done" =>
          (run.attempt.solved <=> SameKey(LastVisited, run.attempt.target_title))

\* C2: a failed attempt's total_clicks is the number of moves the game made,
\* not the ceiling.
C2_FailedClicksAreMoves ==
    (run.pc = "done" /\ ~run.attempt.solved) =>
        run.attempt.total_clicks = Len(game.result.steps)

\* C3: an Attempt has one StepMetrics per GameStep, as many as the moves the
\* game made, in the same order and with the same step index.
C3_OneMetricPerStep ==
    run.pc = "done" =>
        /\ Len(run.attempt.steps) = Len(game.result.steps)
        /\ Len(run.attempt.steps) = Len(game.result.path) - 1
        /\ \A i \in 1..Len(run.attempt.steps) :
              /\ run.attempt.steps[i].step_index = game.result.steps[i].step_index
              /\ run.attempt.steps[i].step_index = i - 1

C3_Witness ==
    /\ run.pc = "done"
    /\ ~run.attempt.solved
    /\ Len(game.result.steps) = 3
    /\ Len(run.attempt.steps) = 3

\* C4: in an Attempt's step metrics, each step's distance after is the next
\* step's distance before.
C4_DistancesChain ==
    /\ run.pc \in {"scoring", "done"} =>
          \A i \in 1..(Len(run.step_metrics) - 1) :
              run.step_metrics[i].remaining_distance_after
                  = run.step_metrics[i + 1].remaining_distance_before
    /\ run.pc = "done" =>
          \A i \in 1..(Len(run.attempt.steps) - 1) :
              run.attempt.steps[i].remaining_distance_after
                  = run.attempt.steps[i + 1].remaining_distance_before

C4_Witness ==
    /\ run.pc = "done"
    /\ Len(run.attempt.steps) >= 3
    /\ run.attempt.steps[1].remaining_distance_after < Sentinel
    /\ run.attempt.steps[2].remaining_distance_after
          < run.attempt.steps[1].remaining_distance_after
    /\ run.attempt.steps[2].remaining_distance_before
          = run.attempt.steps[1].remaining_distance_after

\* C9: when the start has the target's normalization key, the game asks the
\* policy nothing and the attempt is solved with no move, no step and a best
\* path of 0.
C9_StartAtTargetIsSolved ==
    (run.pc \notin {"idle", "raised"} /\ SameKey(run.start_title, run.target_title)) =>
        /\ game.pc \notin {"awaiting_decision", "validating"}
        /\ game.pc = "returned" =>
              /\ game.result.solved
              /\ game.result.total_clicks = 0
              /\ game.result.steps = <<>>
        /\ run.pc = "done" =>
              /\ run.attempt.solved
              /\ run.attempt.total_clicks = 0
              /\ run.attempt.best_path_length = 0
              /\ run.attempt.steps = <<>>

\* The on-page links whose article the answer in flight names by its
\* absolute URL, as the only link of the answer.
AbsoluteSingleLink ==
    IF game.pc # "validating" THEN {}
    ELSE {i \in 1..Len(game.valid_links) :
             /\ StartsWith(game.valid_links[i][2], WikiRel)
             /\ game.response = Link(game.valid_links[i][1],
                                     WikiHttps \o DropFirst(game.valid_links[i][2], Len(WikiRel)))}

\* C10: an answer of one link giving the absolute URL of an article the page
\* links to by its relative path is accepted: the move is made.
C10_AbsoluteUrlAccepted ==
    [][AbsoluteSingleLink # {} =>
          /\ Len(game'.steps) = Len(game.steps) + 1
          /\ \E i \in AbsoluteSingleLink :
                SameKey(game'.current_title, TitleFromUrl(game.valid_links[i][2]))]_vars

(***************************************************************************)
(* SpecClassify: classify_step called on pairs of distances.               *)
(***************************************************************************)

\* The largest distance tried besides the sentinel.
MaxDistanceInput == 10

\* The distances classify_step is called with.
DistanceInputs == (0..MaxDistanceInput) \cup {Sentinel}

InitClassify ==
    /\ graph = "pets"
    /\ bfs = IdleQuery(NewFinder)
    /\ game = IdleGame
    /\ run = IdleRun
    /\ call = IdleCall
    /\ api = NoAPI
    /\ chat = IdleChat
    /\ metrics = NoMetrics
    /\ batch = IdleBatch
    /\ pathfinder = NoPathFinder

\* classify_step is called and returns.
ClassifyCall ==
    /\ call.pc = "idle"
    /\ \E distance_before \in DistanceInputs, distance_after \in DistanceInputs :
          call' = [pc |-> "done",
                   distance_before |-> distance_before,
                   distance_after |-> distance_after,
                   result |-> ClassifyStep(distance_before, distance_after)]
    /\ UNCHANGED <<remote, benchmark, graph, bfs, game, run>>

\* The result is taken; the next call may come.
ClassifyTaken ==
    /\ call.pc = "done"
    /\ call' = IdleCall
    /\ UNCHANGED <<remote, benchmark, graph, bfs, game, run>>

NextClassify ==
    \/ ClassifyCall
    \/ ClassifyTaken

SpecClassify == InitClassify /\ [][NextClassify]_vars

\* C5: classify_step gives every pair of distances, the sentinel included,
\* exactly one direction: forward when the distance after is smaller,
\* neutral when equal, backwards when larger.
C5_ClassifyStepTotal ==
    call.pc = "done" =>
        /\ call.result \in {"forward", "neutral", "backwards"}
        /\ call.result = "forward" <=> call.distance_after < call.distance_before
        /\ call.result = "neutral" <=> call.distance_after = call.distance_before
        /\ call.result = "backwards" <=> call.distance_after > call.distance_before

C5_Witness ==
    /\ call.pc = "done"
    /\ call.distance_before = Sentinel
    /\ call.distance_after = Sentinel
    /\ call.result = "neutral"

(***************************************************************************)
(* Claims about the validation of an answer, checked under Spec.           *)
(***************************************************************************)

\* The on-page targets whose article the parsed target of the answer in
\* flight names under the normalization key, though written otherwise.
NamedOnPage ==
    LET parsed == ParseResponse(game.response)
    IN  IF game.pc # "validating" \/ IsNone(parsed) THEN {}
        ELSE {v \in ValidUrls(game.valid_links) :
                 /\ Get(parsed)[2] # v
                 /\ StartsWith(Get(parsed)[2], WikiRel)
                 /\ SameKey(TitleFromUrl(Get(parsed)[2]), TitleFromUrl(v))}

\* C11: an answer naming an on-page article in another letter case, or with
\* spaces for underscores, is accepted: the move to that article is made.
C11_NormalizedMatchAccepted ==
    [][NamedOnPage # {} =>
          /\ Len(game'.steps) = Len(game.steps) + 1
          /\ \E v \in NamedOnPage : SameKey(game'.current_title, TitleFromUrl(v))]_vars

(***************************************************************************)
(* SpecParse: parse_response called on texts built from padding and links. *)
(***************************************************************************)

\* The largest number of pieces, padding or links, in a text.
MaxPieces == 3

\* An article of the site whose title holds parentheses.
BatX == <<"B","a","t"," ","(","x",")">>

\* A page of another site whose URL holds "wikipedia.org".
ForeignUrl ==
    <<"h","t","t","p","s",":","/","/","f","r",".">> \o WikipediaOrg \o WikiRel \o <<"C">>

\* The pieces of the texts: padding, and links [text](target) or
\* [text](target "title") to targets of every kind.
Pieces ==
    {[k |-> "pad", text |-> <<"g","o">>, target |-> <<>>, title |-> <<>>]}
    \cup {[k |-> "link", text |-> l[1], target |-> l[2], title |-> l[3]] :
             l \in {<<Cat, HrefOf(Cat), <<>> >>,
                    <<Cat, HrefOf(Cat), Cat>>,
                    <<Animal, WikiHttps \o Animal, <<>> >>,
                    <<RedFox, HrefOf(RedFox), <<>> >>,
                    <<BatX, HrefOf(BatX), <<>> >>,
                    <<<<"H","e","l","p">>, HelpUrl, <<>> >>,
                    <<<<"e","x","t">>, ExternalUrl, <<>> >>,
                    <<<<"f","r">>, ForeignUrl, <<>> >>}}

\* The text of a piece.
Render(piece) ==
    IF piece.k = "pad" THEN piece.text
    ELSE Link(piece.text,
              IF piece.title = <<>> THEN piece.target
              ELSE piece.target \o <<" ", "\"">> \o piece.title \o <<"\"">>)

\* The text of a sequence of pieces, a space between two.
RenderAll(pieces) ==
    ConcatAll([i \in 1..Len(pieces) |->
                  IF i = 1 THEN Render(pieces[i]) ELSE <<" ">> \o Render(pieces[i])])

\* The sequences of pieces the texts are built from.
PieceSeqs == UNION {[1..n -> Pieces] : n \in 0..MaxPieces}

InitParse ==
    /\ graph = "pets"
    /\ bfs = IdleQuery(NewFinder)
    /\ game = IdleGame
    /\ run = IdleRun
    /\ call = IdleCall
    /\ api = NoAPI
    /\ chat = IdleChat
    /\ metrics = NoMetrics
    /\ batch = IdleBatch
    /\ pathfinder = NoPathFinder

\* parse_response is called on a text and returns.
ParseCall ==
    /\ call.pc = "idle"
    /\ \E pieces \in PieceSeqs :
          call' = [pc |-> "done", pieces |-> pieces,
                   response |-> RenderAll(pieces),
                   result |-> ParseResponse(RenderAll(pieces))]
    /\ UNCHANGED <<remote, benchmark, graph, bfs, game, run>>

\* The result is taken; the next call may come.
ParseTaken ==
    /\ call.pc = "done"
    /\ call' = IdleCall
    /\ UNCHANGED <<remote, benchmark, graph, bfs, game, run>>

NextParse ==
    \/ ParseCall
    \/ ParseTaken

SpecParse == InitParse /\ [][NextParse]_vars

\* The links embedded in the text parse_response was called on, in order.
EmbeddedLinks ==
    LET IsLink(piece) == piece.k = "link"
    IN  SelectSeq(call.pieces, IsLink)

\* C12: on a text with exactly one embedded link parse_response returns the
\* link's display text and target, whatever the target and the padding; on
\* a text with no link it returns None.
C12_SingleLinkReturned ==
    call.pc = "done" =>
        /\ Len(EmbeddedLinks) = 1 =>
              call.result = Some(<<EmbeddedLinks[1].text, EmbeddedLinks[1].target>>)
        /\ Len(EmbeddedLinks) = 0 => IsNone(call.result)

\* The target is a recognized article reference: a link to an article of the
\* site, outside the special namespaces.
Recognized(target) == ~IsNone(NormalizeWikipediaUrl(target))

\* C13: on a text with more than one embedded link parse_response returns
\* the first link whose target is a recognized article reference, skipping
\* external and special-namespace links, and None when no link qualifies.
C13_FirstRecognizedLink ==
    (call.pc = "done" /\ Len(EmbeddedLinks) > 1) =>
        LET IsRecognized(piece) == Recognized(piece.target)
            qualifying == SelectSeq(EmbeddedLinks, IsRecognized)
        IN  IF qualifying = <<>> THEN IsNone(call.result)
            ELSE call.result = Some(<<qualifying[1].text, qualifying[1].target>>)

(***************************************************************************)
(* Claims about the retries and the ends of the game, checked under Spec.  *)
(***************************************************************************)

\* The answer in flight names no on-page target: it holds no usable link,
\* or its target is none of the page's, trailing slashes aside.
UnusableAnswer ==
    LET parsed == ParseResponse(game.response)
    IN  \/ IsNone(parsed)
        \/ \A v \in ValidUrls(game.valid_links) :
              RStripChar(v, "/") # RStripChar(Get(parsed)[2], "/")

\* C14: the policy is asked at most max_retries times for a move; an answer
\* that is unparseable or names no on-page target spends one retry; every
\* move starts with a fresh budget; and when the budget is spent the game
\* ends unsolved with the steps recorded before, none added.
C14_RetryBudgetPerMove ==
    /\ [](game.pc \in {"awaiting_decision", "validating"} => game.retry < max_retries)
    /\ [][game.pc = "validating" =>
            \/ /\ ~UnusableAnswer
               /\ Len(game'.steps) = Len(game.steps) + 1
               /\ game'.retry = 0
            \/ /\ UnusableAnswer
               /\ game.retry + 1 < max_retries
               /\ game'.pc = "awaiting_decision"
               /\ game'.retry = game.retry + 1
               /\ game'.steps = game.steps
            \/ /\ UnusableAnswer
               /\ game.retry + 1 = max_retries
               /\ game'.pc = "returned"
               /\ ~game'.result.solved
               /\ game'.result.steps = game.steps
               /\ game'.result.total_clicks = Len(game.steps)]_vars
    /\ [][(game.pc = "awaiting_content" /\ game'.pc = "awaiting_decision")
             => game'.retry = 0]_vars

C14_Witness ==
    /\ game.pc = "returned"
    /\ ~game.result.solved
    /\ game.retry = max_retries - 1
    /\ Len(game.result.steps) = 2
    /\ game.result.total_clicks = 2

\* C15: no game records more than MAX_CLICKS steps; a game of MAX_CLICKS
\* moves that is not at the target ends unsolved with total_clicks equal to
\* MAX_CLICKS, and so does its attempt, whose effective clicks are the
\* ceiling whatever the remaining distance.
C15_MoveCeiling ==
    /\ game.pc # "idle" => Len(game.steps) <= MAX_CLICKS
    /\ (game.pc = "returned" /\ Len(game.result.steps) = MAX_CLICKS
            /\ ~SameKey(LastVisited, game.target_title)) =>
          /\ ~game.result.solved
          /\ game.result.total_clicks = MAX_CLICKS
    /\ (run.pc = "done" /\ Len(game.result.steps) = MAX_CLICKS
            /\ ~SameKey(LastVisited, game.target_title)) =>
          /\ ~run.attempt.solved
          /\ run.attempt.total_clicks = MAX_CLICKS
          /\ Len(run.attempt.steps) = MAX_CLICKS
          /\ EffectiveClicks(run.attempt) = MAX_CLICKS

C15_Witness ==
    /\ run.pc = "done"
    /\ ~run.attempt.solved
    /\ Len(game.result.steps) = MAX_CLICKS
    /\ run.attempt.total_clicks = MAX_CLICKS
    /\ run.attempt.steps[MAX_CLICKS].remaining_distance_after < Sentinel

\* C16: when the fetch of the current page fails, play returns at once,
\* unsolved, with the steps recorded so far and nothing added; the fetch is
\* not tried again, and the policy is only ever asked about a page that was
\* fetched.
C16_FetchFailureEndsGame ==
    /\ [](game.pc \in {"awaiting_decision", "validating"} =>
             ArticleExists(graph, game.current_title))
    /\ [][(game.pc = "awaiting_content" /\ game'.pc # "awaiting_decision") =>
             /\ game'.pc = "returned"
             /\ ~game'.result.solved
             /\ game'.result.steps = game.steps
             /\ game'.result.path = game.path
             /\ game'.result.total_clicks = Len(game.steps)]_vars

C16_Witness ==
    /\ game.pc = "returned"
    /\ ~game.result.solved
    /\ game.retry = 0
    /\ Len(game.result.steps) = 1
    /\ ArticleExists(graph, game.current_title)

(***************************************************************************)
(* WikipediaAPI (src/wikipedia/api.py): the semaphore, query and           *)
(* get_page_html with their retry loops, get_page_links.                   *)
(***************************************************************************)

\* api.py:24, the permits of the semaphore
api_permits == 3

\* api.py:43 and 70, range(3): the attempts of a call
api_attempts == 3

\* orchestrator.py:27, the attempts running at once, each a caller of the API
max_concurrent == 4

\* The functions called: get_page_links, which calls query, and get_page_html.
ApiFns == {"get_page_links", "get_page_html"}

\* What may come of one request: a JSON answer without or with an "error"
\* member, a bad HTTP status (raise_for_status raises HTTPStatusError), a
\* body that is no JSON (ValueError), or no answer at all (httpx.ConnectError
\* or httpx.ReadTimeout raised by client.get).
ApiOutcomes == {"ok", "error_in_data", "status_error", "bad_json", "transport_error"}

\* What the site may answer: to action=parse on a title it has no page for,
\* never a JSON answer without "error".
SiteAnswers(g, fn, title) ==
    IF fn = "get_page_html" /\ ~ArticleExists(g, title)
    THEN ApiOutcomes \ {"ok"}
    ELSE ApiOutcomes

\* The except clause catches the outcome (api.py:51 and 80): HTTPStatusError
\* and ValueError, the latter also raised on "error" in the data of a page.
Caught(fn, response) ==
    \/ response \in {"status_error", "bad_json"}
    \/ fn = "get_page_html" /\ response = "error_in_data"

\* The calls of _release_rate_limit one request ends with: api.py:49 or 52
\* in query; api.py:76, and 81 in the except clause, in get_page_html;
\* none when client.get raises something the except clause does not catch.
Releases(fn, response) ==
    IF response = "transport_error" THEN 0
    ELSE IF fn = "get_page_html" /\ response = "error_in_data" THEN 2
    ELSE 1

\* The value a call returns: the links get_page_links collects from the
\* query's data (none without pages or links in it), the text of the page.
ApiValue(g, fn, title, response) ==
    IF fn = "get_page_links"
    THEN IF response = "ok" THEN GetPageLinks(g, title) ELSE <<>>
    ELSE ArticleMarkdown(g, title)

\* No call.
IdleCaller ==
    [pc |-> "idle", fn |-> "none", title |-> <<>>, attempt |-> 0,
     response |-> "none", result |-> [kind |-> "none", value |-> <<>>]]

\* A caller after its request's outcome (api.py:45-57 and 72-85): the call
\* returns, or goes to its next attempt, or raises.
AfterApiResponse(g, c) ==
    IF c.response = "transport_error"
    THEN [c EXCEPT !.pc = "raised", !.result = [kind |-> "TransportError", value |-> <<>>]]
    ELSE IF Caught(c.fn, c.response)
    THEN IF c.attempt < api_attempts - 1
         THEN [c EXCEPT !.pc = "acquiring", !.attempt = c.attempt + 1]
         ELSE [c EXCEPT !.pc = "raised", !.result = [kind |-> "ValueError", value |-> <<>>]]
    ELSE [c EXCEPT !.pc = "returned",
                   !.result = [kind |-> "value",
                               value |-> ApiValue(g, c.fn, c.title, c.response)]]

(***************************************************************************)
(* SpecAPI: calls of the API seen request by request.                      *)
(***************************************************************************)

\* The callers of SpecAPI.
NumApiCallers == 2

\* The titles asked for: an article of the site, and one it does not have.
ApiTitles == {Dog, Bird}

InitAPI ==
    /\ graph = "pets"
    /\ bfs = IdleQuery(NewFinder)
    /\ game = IdleGame
    /\ run = IdleRun
    /\ call = IdleCall
    /\ api = [value |-> api_permits, callers |-> [i \in 1..NumApiCallers |-> IdleCaller]]
    /\ chat = IdleChat
    /\ metrics = NoMetrics
    /\ batch = IdleBatch
    /\ pathfinder = NoPathFinder

\* A caller calls get_page_links or get_page_html and waits at the gate.
ApiCall(i) ==
    /\ api.callers[i].pc = "idle"
    /\ \E fn \in ApiFns, title \in ApiTitles :
          api' = [api EXCEPT !.callers[i] =
                     [IdleCaller EXCEPT !.pc = "acquiring", !.fn = fn, !.title = title]]
    /\ UNCHANGED <<graph, bfs, game, run, call, chat, benchmark>>

\* _rate_limit (api.py:27-31): the caller takes a permit; its request is on.
ApiAdmit(i) ==
    /\ api.callers[i].pc = "acquiring"
    /\ api.value > 0
    /\ api' = [api EXCEPT !.value = api.value - 1,
                          !.callers[i].pc = "requesting",
                          !.callers[i].response = "none"]
    /\ UNCHANGED <<graph, bfs, game, run, call, chat, benchmark>>

\* The request of a caller ends: an answer, or an exception of client.get.
ApiResponds(i) ==
    /\ api.callers[i].pc = "requesting"
    /\ \E response \in SiteAnswers(graph, api.callers[i].fn, api.callers[i].title) :
          api' = [api EXCEPT !.callers[i].pc = "responded",
                             !.callers[i].response = response]
    /\ UNCHANGED <<graph, bfs, game, run, call, chat, benchmark>>

\* The caller handles the outcome: permits released, and the call returns,
\* retries or raises.
ApiHandles(i) ==
    /\ api.callers[i].pc = "responded"
    /\ api' = [api EXCEPT
                  !.value = api.value + Releases(api.callers[i].fn, api.callers[i].response),
                  !.callers[i] = AfterApiResponse(graph, api.callers[i])]
    /\ UNCHANGED <<graph, bfs, game, run, call, chat, benchmark>>

NextAPI ==
    \E i \in 1..NumApiCallers :
        \/ ApiCall(i)
        \/ ApiAdmit(i)
        \/ ApiResponds(i)
        \/ ApiHandles(i)

SpecAPI == InitAPI /\ [][NextAPI]_vars

\* The outcomes that are transient faults: a bad status (429 or 5xx), a
\* connection error or a timeout.
TransientFaults == {"status_error", "transport_error"}

\* C18: a call makes at most api_attempts attempts; a transient fault on an
\* attempt before the last is retried, a good answer returns its result, and
\* a transient fault on the last attempt raises the terminal fetch error.
C18_ThreeAttempts ==
    /\ [](\A i \in DOMAIN api.callers : api.callers[i].attempt < api_attempts)
    /\ [][\A i \in DOMAIN api.callers :
            (api.callers[i].pc = "responded" /\ api'.callers[i] # api.callers[i]) =>
                LET c == api.callers[i]
                    d == api'.callers[i]
                IN  /\ (c.response \in TransientFaults /\ c.attempt < api_attempts - 1) =>
                          (d.pc = "acquiring" /\ d.attempt = c.attempt + 1)
                    /\ (c.response \in TransientFaults /\ c.attempt = api_attempts - 1) =>
                          (d.pc = "raised" /\ d.result.kind = "ValueError")
                    /\ c.response = "ok" => (d.pc = "returned" /\ d.result.kind = "value")]_vars

\* The answer a caller holds says the article asked for does not exist: the
\* "error" answer to get_page_html, the answer without links to the query.
NotFoundAnswer(c) ==
    /\ c.pc = "responded"
    /\ ~ArticleExists(graph, c.title)
    /\ c.response = IF c.fn = "get_page_html" THEN "error_in_data" ELSE "ok"

\* C19: a call for an article that does not exist raises on the answer that
\* says so: it sends no further request and returns no links or content.
C19_NotFoundNotRetried ==
    [][\A i \in DOMAIN api.callers :
          (NotFoundAnswer(api.callers[i]) /\ api'.callers[i] # api.callers[i]) =>
              /\ api'.callers[i].pc = "raised"
              /\ api'.callers[i].attempt = api.callers[i].attempt]_vars

(***************************************************************************)
(* SpecGate: max_concurrent callers at the semaphore, each request seen as *)
(* one step from its end to the permits released.                          *)
(***************************************************************************)

InitGate ==
    /\ graph = "pets"
    /\ bfs = IdleQuery(NewFinder)
    /\ game = IdleGame
    /\ run = IdleRun
    /\ call = IdleCall
    /\ api = [value |-> api_permits, callers |-> [i \in 1..max_concurrent |-> IdleCaller]]
    /\ chat = IdleChat
    /\ metrics = NoMetrics
    /\ batch = IdleBatch
    /\ pathfinder = NoPathFinder

\* A caller calls get_page_links or get_page_html and waits at the gate.
GateCall(i) ==
    /\ api.callers[i].pc = "idle"
    /\ \E fn \in ApiFns :
          api' = [api EXCEPT !.callers[i] =
                     [IdleCaller EXCEPT !.pc = "acquiring", !.fn = fn, !.title = Dog]]
    /\ UNCHANGED <<graph, bfs, game, run, call, chat, benchmark>>

\* _rate_limit (api.py:27-31): the caller takes a permit; its request is on.
GateAdmit(i) ==
    /\ api.callers[i].pc = "acquiring"
    /\ api.value > 0
    /\ api' = [api EXCEPT !.value = api.value - 1, !.callers[i].pc = "requesting"]
    /\ UNCHANGED <<graph, bfs, game, run, call, chat, benchmark>>

\* The request of a caller ends and is handled: permits released, and the
\* call is over or waits at the gate for its next attempt.
GateRequestEnds(i) ==
    /\ api.callers[i].pc = "requesting"
    /\ \E response \in ApiOutcomes :
          LET c == [api.callers[i] EXCEPT !.response = response]
              d == AfterApiResponse(graph, c)
          IN  api' = [api EXCEPT
                         !.value = api.value + Releases(c.fn, response),
                         !.callers[i] =
                             IF d.pc = "acquiring" THEN [d EXCEPT !.response = "none"]
                             ELSE [IdleCaller EXCEPT !.pc = "over"]]
    /\ UNCHANGED <<graph, bfs, game, run, call, chat, benchmark>>

NextGate ==
    \E i \in 1..max_concurrent :
        \/ GateCall(i)
        \/ GateAdmit(i)
        \/ GateRequestEnds(i)

SpecGate == InitGate /\ [][NextGate]_vars

\* The callers whose request is on: a permit taken and not yet given back.
InFlight == {i \in DOMAIN api.callers : api.callers[i].pc = "requesting"}

\* C17: whatever the callers do and however their requests end, at most
\* api_permits requests are in flight.
C17_AtMostThreeInFlight == Cardinality(InFlight) <= api_permits

\* ---------------------------------------------------------------------
\* chat_completion under its retry decorator (openrouter_client.py:53-160)
\* ---------------------------------------------------------------------

\* stop_after_attempt(3) (openrouter_client.py:55).
chat_attempts == 3

\* Models with a reasoning configuration (reasoning_config.py:19-40) and a
\* model id without one.
ChatModels == {"openai/gpt-5.2", "anthropic/claude-opus-4.5"}

UnknownModel == "unknown/model"

\* What client.post can come to: an exception of the transport, or a
\* response with a status and, for status 200, a body.
ChatTransportErrors == {"ConnectError", "ReadTimeout", "ConnectTimeout"}

ChatStatuses == {200, 401, 429, 500, 502, 503, 504}

ChatBodies == {"content", "error", "no_choices", "content_none"}

ChatResponses ==
    [kind : {"transport"}, error : ChatTransportErrors]
        \cup [kind : {"http"}, status : ChatStatuses \ {200}]
        \cup [kind : {"http"}, status : {200}, body : ChatBodies]

\* The exception one attempt of chat_completion raises for a response, ""
\* when it returns the content (openrouter_client.py:115-164).
ChatRaises(response) ==
    IF response.kind = "transport" THEN response.error
    ELSE IF response.status = 429 THEN "OpenRouterRateLimitError"
    ELSE IF response.status \in {500, 502, 503, 504} THEN "HTTPStatusError"
    ELSE IF response.status # 200 THEN "OpenRouterAPIError"
    ELSE IF response.body = "error" THEN "OpenRouterAPIError"
    ELSE IF response.body \in {"no_choices", "content_none"}
         THEN "OpenRouterError"
    ELSE ""

\* retry_if_exception_type(...) of the decorator (openrouter_client.py:54).
RetryTypes == {"OpenRouterRateLimitError", "ConnectError", "ReadTimeout"}

ShouldRetry(exception) == exception \in RetryTypes

\* The decorator after one attempt: the content is returned, a retried
\* exception starts the next attempt while attempts are left, and any
\* other exception, or the last attempt's, is raised to the caller
\* (reraise=True).
AfterChatAttempt(c) ==
    LET exception == ChatRaises(c.response) IN
    IF exception = ""
    THEN [c EXCEPT !.pc = "returned"]
    ELSE IF ShouldRetry(exception) /\ c.attempt < chat_attempts
    THEN [pc |-> "requesting", model_id |-> c.model_id,
          attempt |-> c.attempt + 1]
    ELSE [c EXCEPT !.pc = "raised"]

InitChat ==
    /\ graph = "pets"
    /\ bfs = IdleQuery(NewFinder)
    /\ game = IdleGame
    /\ run = IdleRun
    /\ call = IdleCall
    /\ api = NoAPI
    /\ chat = IdleChat
    /\ metrics = NoMetrics
    /\ batch = IdleBatch
    /\ pathfinder = NoPathFinder

\* chat_completion(model_id, ...) is called: get_reasoning_params raises
\* ValueError for a model without configuration (reasoning_config.py:54-58,
\* not retried), otherwise the first request is sent.
ChatCall ==
    /\ chat.pc = "idle"
    /\ \E model_id \in ChatModels \cup {UnknownModel} :
         chat' = IF model_id = UnknownModel
                 THEN [pc |-> "raised", model_id |-> model_id, attempt |-> 1,
                       response |-> [kind |-> "config", error |-> "ValueError"]]
                 ELSE [pc |-> "requesting", model_id |-> model_id,
                       attempt |-> 1]
    /\ UNCHANGED <<graph, bfs, game, run, call, api, benchmark>>

\* client.post ends (openrouter_client.py:117).
ChatResponds ==
    /\ chat.pc = "requesting"
    /\ \E response \in ChatResponses :
         chat' = [pc |-> "responded", model_id |-> chat.model_id,
                  attempt |-> chat.attempt, response |-> response]
    /\ UNCHANGED <<graph, bfs, game, run, call, api, benchmark>>

\* The attempt's outcome is handled by chat_completion and the decorator.
ChatHandles ==
    /\ chat.pc = "responded"
    /\ chat' = AfterChatAttempt(chat)
    /\ UNCHANGED <<graph, bfs, game, run, call, api, benchmark>>

NextChat == ChatCall \/ ChatResponds \/ ChatHandles

SpecChat == InitChat /\ [][NextChat]_vars

\* The transient faults: rate limiting, a server error, a connection error,
\* a timeout.
TransientFault(response) ==
    \/ response.kind = "transport"
    \/ response.kind = "http" /\ response.status \in {429, 500, 502, 503, 504}

\* C20: a chat_completion call that meets a transient fault (429, 5xx,
\* connection error, timeout) on its first or second attempt makes another
\* attempt; the error reaches the caller only from the third attempt, and no
\* call makes more than three attempts.
C20_TransientFaultRetried ==
    [][(chat.pc = "responded" /\ TransientFault(chat.response))
         => /\ chat.attempt <= chat_attempts
            /\ IF chat.attempt < chat_attempts
               THEN chat'.pc = "requesting" /\ chat'.attempt = chat.attempt + 1
               ELSE chat'.pc = "raised"]_vars

(***************************************************************************)
(* C29, C30: the policy call and the validated move in play.               *)
(***************************************************************************)

\* C29: a policy call that fails during a move is handled by the game loop
\* as a rejected answer is: it consumes one retry of the move, and after the
\* last retry play returns unsolved with the steps recorded so far; play
\* does not raise.
C29_PolicyFailureHandled ==
    [][(game.pc = "awaiting_decision" /\ game'.pc # "validating") =>
          game' = Reject(game)]_vars

\* The link index of an article's page: the targets of the links extracted
\* from its content (engine.py:78-80).
LinkIndex(g, title) == ValidUrls(ExtractLinksFromMarkdown(ArticleMarkdown(g, title)))

\* C30: steps are only ever appended, one at a time, and the step appended
\* leaves the current page for a target that is in the link index extracted
\* from that page's content, in its on-page form.
C30_StepTargetOnPage ==
    [][game'.steps # game.steps =>
          \E step \in {game'.steps[Len(game'.steps)]} :
             /\ game'.steps = Append(game.steps, step)
             /\ step.current_page_title = game.current_title
             /\ step.chosen_target_url \in LinkIndex(graph, game.current_title)
             /\ game'.current_url = step.chosen_target_url]_vars

\* Two moves were made, the second from the page the first led to.
C30_Witness ==
    /\ Len(game.steps) = 2
    /\ game.steps[1].chosen_target_url \in LinkIndex(graph, game.steps[1].current_page_title)
    /\ game.steps[2].current_page_url = game.steps[1].chosen_target_url
    /\ game.steps[2].chosen_target_url \in LinkIndex(graph, game.steps[2].current_page_title)

(***************************************************************************)
(* ModelMetrics and BenchmarkMetrics (src/benchmark/metrics.py).           *)
(***************************************************************************)

\* config.TRIMMED_DROP_COUNT
TRIMMED_DROP_COUNT == 3

RECURSIVE GCD(_, _)
GCD(a, b) == IF b = 0 THEN a ELSE GCD(b, a % b)

\* The number n / d, d > 0, as a fraction in lowest terms.
Fraction(n, d) == <<n \div GCD(n, d), d \div GCD(n, d)>>

\* 0.0, the default of the statistics fields.
Zero == <<0, 1>>

\* a.effective_clicks of the attempts of a list, the key of metrics.py:58.
EffectiveClicksOf(attempts) ==
    [i \in 1..Len(attempts) |-> EffectiveClicks(attempts[i])]

\* sorted(seq, key=...), keys[i] being the key of seq[i]: ascending and
\* stable, equal keys stay in order.
SortedBy(seq, keys) ==
    LET Rank(i) == Cardinality({j \in 1..Len(seq) : keys[j] < keys[i]})
                   + Cardinality({j \in 1..i : keys[j] = keys[i]})
    IN  [r \in 1..Len(seq) |-> seq[CHOOSE i \in 1..Len(seq) : Rank(i) = r]]

\* statistics.median of a non-empty list of integers.
Median(values) ==
    LET Middle(data) ==
            IF Len(data) % 2 = 1
            THEN Fraction(data[(Len(data) + 1) \div 2], 1)
            ELSE Fraction(data[Len(data) \div 2] + data[Len(data) \div 2 + 1], 2)
    IN  Middle(SortedBy(values, values))

\* An AttemptMetrics with its model and attempt ids (metrics.py:19-30).
MetricsAttempt(model_id, attempt_id, attempt) ==
    [model_id |-> model_id, attempt_id |-> attempt_id,
     start_title |-> attempt.start_title, target_title |-> attempt.target_title,
     solved |-> attempt.solved, total_clicks |-> attempt.total_clicks,
     best_path_length |-> attempt.best_path_length, steps |-> attempt.steps,
     trimmed_included |-> FALSE]

\* ModelMetrics(model_id=model_id) (metrics.py:40-53)
ModelMetrics(model_id) ==
    [model_id |-> model_id, attempts |-> <<>>, trimmed_attempts |-> <<>>,
     median_clicks |-> Zero, median_best_path |-> Zero,
     forward_pct |-> Zero, neutral_pct |-> Zero, backwards_pct |-> Zero,
     solve_rate |-> Zero]

\* (a.model_id, a.attempt_id) of the attempts of a list (metrics.py:67).
AttemptIds(attempts) ==
    {<<attempts[i].model_id, attempts[i].attempt_id>> : i \in 1..Len(attempts)}

\* The attempts marked with their membership of the trimmed set
\* (metrics.py:66-69); the lists hold the same attempt objects.
MarkTrimmed(attempts, trimmed_ids) ==
    [i \in 1..Len(attempts) |->
        [attempts[i] EXCEPT !.trimmed_included =
            <<attempts[i].model_id, attempts[i].attempt_id>> \in trimmed_ids]]

\* A mutant of the trimmed set: the best attempts are dropped.
TrimmedDropBest(sorted_attempts) ==
    IF Len(sorted_attempts) > TRIMMED_DROP_COUNT
    THEN SubSeq(sorted_attempts, TRIMMED_DROP_COUNT + 1, Len(sorted_attempts))
    ELSE sorted_attempts

\* sorted_attempts[:-TRIMMED_DROP_COUNT] when there are more attempts than
\* that, all of them otherwise (metrics.py:61-64).
Trimmed(sorted_attempts) ==
    IF Len(sorted_attempts) > TRIMMED_DROP_COUNT
    THEN SubSeq(sorted_attempts, 1, Len(sorted_attempts) - TRIMMED_DROP_COUNT)
    ELSE sorted_attempts

\* ModelMetrics.compute_trimmed_set
ComputeTrimmedSet(model) ==
    LET Marked(trimmed) ==
            [model EXCEPT
                !.trimmed_attempts = MarkTrimmed(trimmed, AttemptIds(trimmed)),
                !.attempts = MarkTrimmed(model.attempts, AttemptIds(trimmed))]
    IN  Marked(Trimmed(SortedBy(model.attempts, EffectiveClicksOf(model.attempts))))

\* The percentage of the steps with a direction (metrics.py:95-103).
DirectionPct(all_steps, direction) ==
    Fraction(100 * Cardinality({i \in 1..Len(all_steps) :
                                   all_steps[i].step_direction = direction}),
             Len(all_steps))

\* ModelMetrics.compute_statistics after compute_trimmed_set
\* (metrics.py:75-103).
StatisticsOf(model) ==
    LET trimmed == model.trimmed_attempts
        WithDirections(m, all_steps) ==
            IF all_steps = <<>> THEN m
            ELSE [m EXCEPT !.forward_pct = DirectionPct(all_steps, "forward"),
                           !.neutral_pct = DirectionPct(all_steps, "neutral"),
                           !.backwards_pct = DirectionPct(all_steps, "backwards")]
    IN  IF trimmed = <<>> THEN model
        ELSE WithDirections(
                 [model EXCEPT
                     !.median_clicks =
                         Median([i \in 1..Len(trimmed) |-> EffectiveClicks(trimmed[i])]),
                     !.median_best_path =
                         Median([i \in 1..Len(trimmed) |-> trimmed[i].best_path_length]),
                     !.solve_rate =
                         Fraction(100 * Cardinality({i \in 1..Len(trimmed) : trimmed[i].solved}),
                                  Len(trimmed))],
                 ConcatAll([i \in 1..Len(trimmed) |-> trimmed[i].steps]))

\* ModelMetrics.compute_statistics
ComputeStatistics(model) == StatisticsOf(ComputeTrimmedSet(model))

\* BenchmarkMetrics.add_attempt on the models of a BenchmarkMetrics.
AddAttempt(models, attempt) ==
    LET Appended(with_model) ==
            [with_model EXCEPT ![attempt.model_id].attempts = Append(@, attempt)]
    IN  Appended(IF attempt.model_id \in DOMAIN models THEN models
                 ELSE Put(models, attempt.model_id, ModelMetrics(attempt.model_id)))

\* BenchmarkMetrics.compute_all_statistics
ComputeAllStatistics(models) ==
    [model_id \in DOMAIN models |-> ComputeStatistics(models[model_id])]

(***************************************************************************)
(* SpecMetrics: attempts are added to a BenchmarkMetrics in any order and  *)
(* the statistics are computed.                                            *)
(***************************************************************************)

\* The attempts added to one BenchmarkMetrics.
MaxAttempts == 5

MetricsModels == {"openai/gpt-5.2", "anthropic/claude-opus-4.5"}

\* The AttemptMetrics run_attempt returns for a game of `clicks` steps whose
\* remaining distances were `distances`, the first before the first step.
SampleAttempt(start_title, target_title, solved, best_path_length, distances) ==
    AttemptMetrics(start_title, target_title,
                   [solved |-> solved, total_clicks |-> Len(distances) - 1],
                   best_path_length,
                   [i \in 1..(Len(distances) - 1) |->
                       StepMetrics([step_index |-> i - 1], distances[i], distances[i + 1])])

\* Attempts on the pets graph: Dog, Cat, Animal; Dog, Red Fox, Bat, Animal;
\* Dog, Red Fox for Animal and then no usable answer; Dog for Bird, which
\* no path reaches, the fetch failing.
AttemptSamples ==
    {SampleAttempt(Dog, Animal, TRUE, 2, <<2, 1, 0>>),
     SampleAttempt(Dog, Animal, TRUE, 2, <<2, 2, 1, 0>>),
     SampleAttempt(Dog, Animal, FALSE, 2, <<2, 2>>),
     SampleAttempt(Dog, Bird, FALSE, Sentinel, <<Sentinel>>)}

InitMetrics ==
    /\ graph = "pets"
    /\ bfs = IdleQuery(NewFinder)
    /\ game = IdleGame
    /\ run = IdleRun
    /\ call = IdleCall
    /\ api = NoAPI
    /\ chat = IdleChat
    /\ metrics = NoMetrics
    /\ batch = IdleBatch
    /\ pathfinder = NoPathFinder

\* BenchmarkMetrics(benchmark_name=...) (orchestrator.py:51)
NewMetrics ==
    /\ metrics.pc = "idle"
    /\ metrics' = [pc |-> "collecting", models |-> <<>>, added |-> 0]
    /\ UNCHANGED <<remote, graph, bfs, game, run, call, batch, pathfinder>>

\* metrics.add_attempt(result)
MetricsAddAttempt ==
    /\ metrics.pc = "collecting"
    /\ metrics.added < MaxAttempts
    /\ \E model_id \in MetricsModels, sample \in AttemptSamples :
         \E attempt_id \in {IF model_id \in DOMAIN metrics.models
                            THEN Len(metrics.models[model_id].attempts) ELSE 0} :
            metrics' = [metrics EXCEPT
                           !.models = AddAttempt(@, MetricsAttempt(model_id, attempt_id, sample)),
                           !.added = @ + 1]
    /\ UNCHANGED <<remote, graph, bfs, game, run, call, batch, pathfinder>>

\* metrics.compute_all_statistics()
MetricsCompute ==
    /\ metrics.pc \in {"collecting", "computed"}
    /\ metrics' = [metrics EXCEPT !.pc = "computed",
                                  !.models = ComputeAllStatistics(@)]
    /\ UNCHANGED <<remote, graph, bfs, game, run, call, batch, pathfinder>>

NextMetrics == NewMetrics \/ MetricsAddAttempt \/ MetricsCompute

SpecMetrics == InitMetrics /\ [][NextMetrics]_vars

\* The attempts of a model that its trimmed set leaves out.
Dropped(model) ==
    {i \in 1..Len(model.attempts) :
        <<model.attempts[i].model_id, model.attempts[i].attempt_id>>
            \notin AttemptIds(model.trimmed_attempts)}

\* C27: once the statistics are computed, a model with N attempts has a
\* trimmed set of N - TRIMMED_DROP_COUNT of its attempts when N exceeds the
\* drop count and of all N otherwise, each attempt at most once, and no
\* attempt kept costs more (effective clicks) than an attempt dropped; the
\* attempts' trimmed_included marks say which were kept.
C27_TrimmedSet ==
    metrics.pc = "computed" =>
        \A model_id \in DOMAIN metrics.models :
            \E model \in {metrics.models[model_id]} :
                /\ Len(model.trimmed_attempts) =
                       IF Len(model.attempts) > TRIMMED_DROP_COUNT
                       THEN Len(model.attempts) - TRIMMED_DROP_COUNT
                       ELSE Len(model.attempts)
                /\ AttemptIds(model.trimmed_attempts) \subseteq AttemptIds(model.attempts)
                /\ Cardinality(AttemptIds(model.trimmed_attempts)) = Len(model.trimmed_attempts)
                /\ \A k \in 1..Len(model.trimmed_attempts), d \in Dropped(model) :
                       EffectiveClicks(model.trimmed_attempts[k])
                           <= EffectiveClicks(model.attempts[d])
                /\ \A i \in 1..Len(model.attempts) :
                       model.attempts[i].trimmed_included <=> i \notin Dropped(model)

\* Five attempts of one model, of which the two solved ones are kept.
C27_Witness ==
    /\ metrics.pc = "computed"
    /\ \E model_id \in DOMAIN metrics.models :
          /\ Len(metrics.models[model_id].attempts) = MaxAttempts
          /\ Len(metrics.models[model_id].trimmed_attempts) = MaxAttempts - TRIMMED_DROP_COUNT
          /\ \A k \in 1..Len(metrics.models[model_id].trimmed_attempts) :
                 metrics.models[model_id].trimmed_attempts[k].solved
          /\ \A d \in Dropped(metrics.models[model_id]) :
                 ~metrics.models[model_id].attempts[d].solved

\* The statistics of a model.
Statistics(model) ==
    <<model.median_clicks, model.median_best_path, model.solve_rate,
      model.forward_pct, model.neutral_pct, model.backwards_pct>>

\* The orders of n things.
Orders(n) == {p \in [1..n -> 1..n] : \A i, j \in 1..n : p[i] = p[j] => i = j}

\* C28: the statistics computed for a model are those computed from its
\* attempts added in any other order, ties on effective clicks included, and
\* computing them again changes nothing.
C28_OrderInsensitive ==
    metrics.pc = "computed" =>
        \A model_id \in DOMAIN metrics.models :
            \E model \in {metrics.models[model_id]} :
                /\ ComputeStatistics(model) = model
                /\ \A p \in Orders(Len(model.attempts)) :
                       Statistics(ComputeStatistics(
                           [ModelMetrics(model_id) EXCEPT
                               !.attempts = [i \in 1..Len(model.attempts) |->
                                                model.attempts[p[i]]]]))
                           = Statistics(model)

(***************************************************************************)
(* SpecShared: the PathFinder of a benchmark run (orchestrator.py:59-61)   *)
(* and the concurrent attempts whose searches call its _get_links.         *)
(***************************************************************************)

\* The attempts running at the same time.
NumAttempts == 2

\* The _get_links calls of one attempt's searches.
MaxLookups == 2

\* The titles the searches look up; the first two have one key.
LookupTitles == {Dog, Lower(Dog), Cat}

\* An attempt not started; `finder` is the instance run_attempt goes
\* through, self.pathfinder of the one AttemptRunner (orchestrator.py:61).
IdleAttempt ==
    [pc |-> "idle", finder |-> 1, title |-> <<>>, lookups |-> 0, touched |-> {}]

\* The PathFinder instances created (orchestrator.py:59), the calls of
\* api.get_page_links counted by instance and key, and the attempts.
InitShared ==
    /\ graph = "pets"
    /\ bfs = IdleQuery(NewFinder)
    /\ game = IdleGame
    /\ run = IdleRun
    /\ call = IdleCall
    /\ api = NoAPI
    /\ chat = IdleChat
    /\ metrics = NoMetrics
    /\ batch = IdleBatch
    /\ pathfinder = [pc |-> "created",
                     finders |-> <<NewFinder>>,
                     asked |-> <<>>,
                     attempts |-> [i \in 1..NumAttempts |-> IdleAttempt]]

\* A task is admitted and its run_attempt starts (orchestrator.py:130-132).
SharedStart(i) ==
    /\ pathfinder.attempts[i].pc = "idle"
    /\ pathfinder' = [pathfinder EXCEPT !.attempts[i].pc = "running"]
    /\ UNCHANGED <<remote, graph, bfs, game, run, call, metrics, batch>>

\* A search of the attempt calls _get_links(title) (pathfinder.py:25-30):
\* a cached key is answered at once, for another api.get_page_links is
\* called and awaited.
SharedGetLinks(i) ==
    /\ pathfinder.attempts[i].pc = "running"
    /\ pathfinder.attempts[i].lookups < MaxLookups
    /\ \E title \in LookupTitles :
         \E at \in {<<pathfinder.attempts[i].finder, NormalizeTitle(title)>>} :
            pathfinder' =
                IF at[2] \in DOMAIN pathfinder.finders[at[1]].links_cache
                THEN [pathfinder EXCEPT !.attempts[i].lookups = @ + 1,
                                        !.attempts[i].touched = @ \cup {at[1]}]
                ELSE [pathfinder EXCEPT
                         !.attempts[i].pc = "requesting",
                         !.attempts[i].title = title,
                         !.attempts[i].touched = @ \cup {at[1]},
                         !.asked = Put(@, at, IF at \in DOMAIN @ THEN @[at] + 1 ELSE 1)]
    /\ UNCHANGED <<remote, graph, bfs, game, run, call, metrics, batch>>

\* api.get_page_links returns and the links are cached (pathfinder.py:30-37).
SharedLinksReturn(i) ==
    /\ pathfinder.attempts[i].pc = "requesting"
    /\ \E f \in {pathfinder.attempts[i].finder}, title \in {pathfinder.attempts[i].title} :
         pathfinder' =
             [pathfinder EXCEPT
                 !.finders[f] = CacheLinks(@, NormalizeTitle(title),
                                           AddLinks(GetPageLinks(graph, title),
                                                    @.title_case_cache)).finder,
                 !.attempts[i].pc = "running",
                 !.attempts[i].title = <<>>,
                 !.attempts[i].lookups = @ + 1]
    /\ UNCHANGED <<remote, graph, bfs, game, run, call, metrics, batch>>

\* api.get_page_links raises: nothing is cached, and the search, and with
\* it run_attempt, raises.
SharedLinksFail(i) ==
    /\ pathfinder.attempts[i].pc = "requesting"
    /\ pathfinder' = [pathfinder EXCEPT !.attempts[i].pc = "over",
                                        !.attempts[i].title = <<>>]
    /\ UNCHANGED <<remote, graph, bfs, game, run, call, metrics, batch>>

\* run_attempt returns.
SharedEnd(i) ==
    /\ pathfinder.attempts[i].pc = "running"
    /\ pathfinder' = [pathfinder EXCEPT !.attempts[i].pc = "over"]
    /\ UNCHANGED <<remote, graph, bfs, game, run, call, metrics, batch>>

NextShared ==
    \E i \in 1..NumAttempts :
        \/ SharedStart(i)
        \/ SharedGetLinks(i)
        \/ SharedLinksReturn(i)
        \/ SharedLinksFail(i)
        \/ SharedEnd(i)

SpecShared == InitShared /\ [][NextShared]_vars

\* C25: over the lifetime of a finder and every interleaving of the attempts
\* that use it, api.get_page_links is called at most once for the links of
\* an article, identified by its normalization key.
C25_LinksAskedOnce ==
    \A at \in DOMAIN pathfinder.asked : pathfinder.asked[at] <= 1

\* An attempt is inside run_attempt.
AttemptRunning(i) == pathfinder.attempts[i].pc \in {"running", "requesting"}

\* C26: two attempts running at the same time have read or written no
\* link-set cache in common: each goes through a finder of its own.
C26_CachePerAttempt ==
    \A i, j \in 1..NumAttempts :
        (i # j /\ AttemptRunning(i) /\ AttemptRunning(j)) =>
            /\ pathfinder.attempts[i].finder # pathfinder.attempts[j].finder
            /\ pathfinder.attempts[i].touched \cap pathfinder.attempts[j].touched = {}

(***************************************************************************)
(* SpecBatch: BenchmarkOrchestrator.run_benchmark (orchestrator.py:38-116) *)
(* with its attempts under the attempt semaphore, their calls of the       *)
(* WikipediaAPI under the semaphore of api.py:24, and the phases before    *)
(* and after the attempts.                                                 *)
(***************************************************************************)

\* The pairs the sampler returns (ATTEMPTS_PER_MODEL of them, config.py:23).
NumPairs == 4

\* The calls of the WikipediaAPI that one attempt makes.
MaxCalls == 1

\* MODELS (config.py:6-11)
BatchModels == <<"openai/gpt-5.2", "anthropic/claude-opus-4.5">>

\* The conditions run: baseline collects tips, peer_pressure needs the
\* best paths beforehand (conditions.py:36-61).
BatchConditions == {"baseline", "peer_pressure"}

\* config.collect_tips and config.use_peer_pressure
collect_tips(condition) == condition = "baseline"

use_peer_pressure(condition) == condition = "peer_pressure"

\* How a call of the API may end for its caller: it returns; it raises
\* ValueError after its last attempt's bad status; client.get raises a
\* connection error or a timeout, which api.py does not catch.
CallOutcomes == {"ok", "status_error", "transport_error"}

\* BenchmarkOrchestrator.__init__ (orchestrator.py:27-36)
NewBatch ==
    [pc |-> "constructed", semaphore |-> max_concurrent, condition |-> "none",
     tasks |-> <<>>]

\* The coroutines of orchestrator.py:85-98, in the order of creation.
CreatedTasks ==
    [n \in 1..(Len(BatchModels) * NumPairs) |->
        [model_id |-> BatchModels[(n - 1) \div NumPairs + 1],
         attempt_id |-> (n - 1) % NumPairs,
         pc |-> "created", calls |-> 0]]

\* The AttemptMetrics of a task whose run_attempt returned.
TaskResult(task) ==
    MetricsAttempt(task.model_id, task.attempt_id,
                   SampleAttempt(Dog, Animal, TRUE, 2, <<2, 1, 0>>))

\* orchestrator.py:105-107: the results of gather, which are in the order
\* of the tasks, added to the metrics unless None.
Collected(tasks) ==
    LET added[n \in 0..Len(tasks)] ==
            IF n = 0 THEN <<>>
            ELSE IF tasks[n].pc = "returned"
                 THEN AddAttempt(added[n - 1], TaskResult(tasks[n]))
                 ELSE added[n - 1]
    IN  added[Len(tasks)]

InitBatch ==
    /\ graph = "pets"
    /\ bfs = IdleQuery(NewFinder)
    /\ game = IdleGame
    /\ run = IdleRun
    /\ call = IdleCall
    /\ api = NoAPI
    /\ chat = IdleChat
    /\ metrics = NoMetrics
    /\ batch = NewBatch
    /\ pathfinder = NoPathFinder

\* run_benchmark(condition) up to the await of the sampler
\* (orchestrator.py:50-65).
RunBenchmark ==
    /\ batch.pc = "constructed"
    /\ \E condition \in BatchConditions :
          batch' = [batch EXCEPT !.pc = "sampling", !.condition = condition]
    /\ metrics' = [pc |-> "collecting", models |-> <<>>, added |-> 0]
    /\ api' = [value |-> api_permits, callers |-> <<>>]
    /\ UNCHANGED <<chat, graph, bfs, game, run, call, pathfinder>>

\* The tasks are created and gather awaited (orchestrator.py:85-102).
Gathering(b) == [b EXCEPT !.pc = "gathering", !.tasks = CreatedTasks]

\* sample_article_pairs returns (orchestrator.py:65-75).
SamplingReturns ==
    /\ batch.pc = "sampling"
    /\ batch' = IF use_peer_pressure(batch.condition)
                THEN [batch EXCEPT !.pc = "precomputing"]
                ELSE Gathering(batch)
    /\ UNCHANGED <<remote, metrics, graph, bfs, game, run, call, pathfinder>>

\* compute_shortest_path has returned for every pair (orchestrator.py:77-82).
PrecomputeReturns ==
    /\ batch.pc = "precomputing"
    /\ batch' = Gathering(batch)
    /\ UNCHANGED <<remote, metrics, graph, bfs, game, run, call, pathfinder>>

\* A call of the sampler (sampler.py:21-39, 116-169), of
\* compute_shortest_path (orchestrator.py:79) or of _collect_all_tips
\* (orchestrator.py:111, 145-173) raises: no try encloses it.
PhaseFails ==
    /\ batch.pc \in {"sampling", "precomputing", "tips"}
    /\ batch' = [batch EXCEPT !.pc = "raised"]
    /\ UNCHANGED <<remote, metrics, graph, bfs, game, run, call, pathfinder>>

\* The attempt awaits a call of get_page_links or get_page_html: _rate_limit
\* (api.py:27-31) takes a permit of `a` or waits for one.
Calls(b, a, i) ==
    /\ api' = IF a.value > 0 THEN [a EXCEPT !.value = @ - 1] ELSE a
    /\ batch' = [b EXCEPT !.tasks[i].pc = IF a.value > 0 THEN "requesting" ELSE "waiting"]

\* run_attempt is left: the permit of the attempt is given back on return
\* and on an exception, which becomes None (orchestrator.py:130-143).
Leaves(b, a, i, how) ==
    /\ api' = a
    /\ batch' = [b EXCEPT !.semaphore = @ + 1, !.tasks[i].pc = how]

\* `async with self.semaphore` (orchestrator.py:130): the tasks reach it
\* in the order of creation and a permit goes to the longest waiting, whose
\* run_attempt runs to its first call of the API (attempt.py:59-62 or
\* engine.py:70).
TaskAdmit(i) ==
    /\ batch.pc = "gathering"
    /\ batch.tasks[i].pc = "created"
    /\ \A j \in 1..(i - 1) : batch.tasks[j].pc # "created"
    /\ batch.semaphore > 0
    /\ Calls([batch EXCEPT !.semaphore = @ - 1], api, i)
    /\ UNCHANGED <<chat, metrics, graph, bfs, game, run, call, pathfinder>>

\* A permit is there for a waiting attempt.
TaskPermit(i) ==
    /\ batch.pc = "gathering"
    /\ batch.tasks[i].pc = "waiting"
    /\ api.value > 0
    /\ api' = [api EXCEPT !.value = @ - 1]
    /\ batch' = [batch EXCEPT !.tasks[i].pc = "requesting"]
    /\ UNCHANGED <<chat, metrics, graph, bfs, game, run, call, pathfinder>>

\* What run_attempt does after a call of the API: an exception of
\* get_page_links ends it (attempt.py:60, 93, 99); one of get_page_html is
\* caught by the game loop, which ends the game (engine.py:69-73), and the
\* steps made before, if any, are scored with further calls
\* (attempt.py:88-110); after a page fetched the policy is called, and an
\* exception of that call ends run_attempt (engine.py:94-98). Otherwise the
\* attempt goes on to its next call, or returns its AttemptMetrics
\* (attempt.py:112-122).
Continuations(task, fn, response) ==
    IF fn = "get_page_links" /\ response # "ok" THEN {"raise"}
    ELSE {"return"}
         \cup (IF /\ task.calls + 1 < MaxCalls
                  /\ (response = "ok" \/ task.calls > 0)
               THEN {"call"} ELSE {})
         \cup (IF fn = "get_page_html" /\ response = "ok" THEN {"raise"} ELSE {})

\* The function an attempt's call is of: without a best path given, as it
\* is under peer pressure only (orchestrator.py:74-82, 96), run_attempt
\* starts with compute_shortest_path (attempt.py:59-62) and so with
\* get_page_links; else, and later, pages are fetched and links asked for.
CallFns(condition, task) ==
    IF task.calls = 0 /\ ~use_peer_pressure(condition)
    THEN {"get_page_links"}
    ELSE ApiFns

\* The call ends: the permits of api.py are given back, and the attempt
\* goes on to the next point where it waits, or is over.
TaskCallEnds(i) ==
    /\ batch.pc = "gathering"
    /\ batch.tasks[i].pc = "requesting"
    /\ \E fn \in CallFns(batch.condition, batch.tasks[i]), response \in CallOutcomes :
         \E a \in {[api EXCEPT !.value = @ + Releases(fn, response)]},
            then \in Continuations(batch.tasks[i], fn, response) :
              CASE then = "call" -> Calls([batch EXCEPT !.tasks[i].calls = @ + 1], a, i)
                [] then = "return" -> Leaves(batch, a, i, "returned")
                [] then = "raise" -> Leaves(batch, a, i, "raised")
    /\ UNCHANGED <<chat, metrics, graph, bfs, game, run, call, pathfinder>>

\* Every task is over.
AllOver(tasks) == \A i \in DOMAIN tasks : tasks[i].pc \in {"returned", "raised"}

\* gather returns and the results are added (orchestrator.py:102-107);
\* then the tips are collected, or the statistics computed and the metrics
\* returned (orchestrator.py:110-116).
GatherReturns ==
    /\ batch.pc = "gathering"
    /\ AllOver(batch.tasks)
    /\ \E models \in {Collected(batch.tasks)} :
         IF collect_tips(batch.condition)
         THEN /\ batch' = [batch EXCEPT !.pc = "tips"]
              /\ metrics' = [metrics EXCEPT !.models = models]
         ELSE /\ batch' = [batch EXCEPT !.pc = "returned"]
              /\ metrics' = [metrics EXCEPT !.pc = "computed",
                                            !.models = ComputeAllStatistics(models)]
    /\ UNCHANGED <<remote, graph, bfs, game, run, call, pathfinder>>

\* _collect_all_tips returns; the statistics are computed and the metrics
\* returned (orchestrator.py:111-116).
TipsReturn ==
    /\ batch.pc = "tips"
    /\ batch' = [batch EXCEPT !.pc = "returned"]
    /\ metrics' = [metrics EXCEPT !.pc = "computed",
                                  !.models = ComputeAllStatistics(@)]
    /\ UNCHANGED <<remote, graph, bfs, game, run, call, pathfinder>>

NextBatch ==
    \/ RunBenchmark
    \/ SamplingReturns
    \/ PrecomputeReturns
    \/ PhaseFails
    \/ \E i \in DOMAIN batch.tasks : TaskAdmit(i)
    \/ \E i \in DOMAIN batch.tasks : TaskPermit(i)
    \/ \E i \in DOMAIN batch.tasks : TaskCallEnds(i)
    \/ GatherReturns
    \/ TipsReturn

SpecBatch == InitBatch /\ [][NextBatch]_vars

\* The event loop runs every task that can go on, and every external call
\* returns or fails: a step that is possible is taken.
FairBatch == SpecBatch /\ WF_vars(NextBatch)

\* The attempts inside run_attempt: admitted and not over.
Admitted == {i \in DOMAIN batch.tasks : batch.tasks[i].pc \in {"waiting", "requesting"}}

\* The tasks created that wait for a permit of the attempt semaphore.
AwaitingAdmission == {i \in DOMAIN batch.tasks : batch.tasks[i].pc = "created"}

\* C21: at most max_concurrent attempts are inside run_attempt at any
\* moment, and every task created is admitted in the end.
C21_AttemptPermits ==
    /\ [](Cardinality(Admitted) <= max_concurrent)
    /\ (AwaitingAdmission # {}) ~> (AwaitingAdmission = {})

\* The tasks of a model whose run_attempt returned a result.
ReturnedOf(model_id) ==
    {i \in DOMAIN batch.tasks :
        batch.tasks[i].model_id = model_id /\ batch.tasks[i].pc = "returned"}

\* The metrics hold the attempts that returned a result, each once under
\* its model, and no other.
AggregateExact ==
    /\ DOMAIN metrics.models =
          {BatchModels[m] : m \in {n \in DOMAIN BatchModels : ReturnedOf(BatchModels[n]) # {}}}
    /\ \A model_id \in DOMAIN metrics.models :
          \E attempts \in {metrics.models[model_id].attempts} :
             /\ Len(attempts) = Cardinality(ReturnedOf(model_id))
             /\ {<<attempts[k].model_id, attempts[k].attempt_id>> : k \in DOMAIN attempts}
                   = {<<model_id, batch.tasks[i].attempt_id>> : i \in ReturnedOf(model_id)}

\* C22: when run_attempt raises for some attempts, every other attempt
\* still runs to its end, and the metrics of the run hold exactly the
\* attempts that returned a result, each once under its model.
C22_FailuresIsolated ==
    /\ [](batch.pc \in {"tips", "returned"} => AggregateExact)
    /\ (\E i \in DOMAIN batch.tasks : batch.tasks[i].pc = "raised")
          ~> AllOver(batch.tasks)

\* C23: in no phase does a failing external call make run_benchmark raise
\* instead of returning the metrics.
C23_RunNeverAborted == batch.pc # "raised"

\* C24: every external call returning or failing and every task that can
\* go on being run, every attempt is over in the end, with a result or
\* without, and run_benchmark has returned or raised.
C24_RunEnds == <>(batch.pc \in {"returned", "raised"} /\ AllOver(batch.tasks))

(***************************************************************************)
(* Further claims about the game and the attempt, checked under Spec.      *)
(***************************************************************************)

\* C31: in every game result the steps form one path: their indices are
\* 0, 1, ..., n-1 in order, the first leaves the start article, each later
\* one leaves the article the step before chose, the path is the start
\* followed by the chosen targets, and total_clicks = n = Len(path) - 1.
C31_StepsFormOnePath ==
    game.pc = "returned" =>
        \E r \in {game.result} :
            /\ r.total_clicks = Len(r.steps)
            /\ Len(r.path) = Len(r.steps) + 1
            /\ r.path[1] = game.start_title
            /\ \A i \in 1..Len(r.steps) :
                  /\ r.steps[i].step_index = i - 1
                  /\ r.steps[i].current_page_title = r.path[i]
                  /\ r.steps[i].chosen_target_title = r.path[i + 1]
                  /\ i > 1 => r.steps[i].current_page_url = r.steps[i - 1].chosen_target_url

C31_Witness ==
    /\ game.pc = "returned"
    /\ game.result.solved
    /\ Len(game.result.steps) = 3
    /\ game.result.path[3] # game.result.path[1]

\* C34: a rejected response that leaves retries for the move changes
\* nothing of the attempt: the game is on the same article with the same
\* steps and path, the page is not fetched again, and the policy is asked
\* again with the prompt of the same page and links.
C34_RetryLeavesStateUnchanged ==
    [][(game.pc = "validating" /\ game'.pc # "returned" /\ game'.steps = game.steps) =>
          /\ game'.pc = "awaiting_decision"
          /\ game'.retry = game.retry + 1
          /\ game'.current_title = game.current_title
          /\ game'.current_url = game.current_url
          /\ game'.path = game.path
          /\ game'.click_num = game.click_num
          /\ game'.valid_links = game.valid_links
          /\ game'.target_title = game.target_title
          /\ run' = run]_vars

C34_Witness ==
    /\ game.pc = "awaiting_decision"
    /\ game.retry = 2
    /\ Len(game.steps) = 1
    /\ game.path = <<game.start_title, game.steps[1].chosen_target_title>>

\* C35: in every Attempt a StepMetrics has remaining_distance_after = 0
\* exactly when it is the last step of a solved attempt.
C35_ZeroAfterIffSolvedLast ==
    run.pc = "done" =>
        \A i \in 1..Len(run.attempt.steps) :
            (run.attempt.steps[i].remaining_distance_after = 0)
                <=> (run.attempt.solved /\ i = Len(run.attempt.steps))

C35_Witness ==
    /\ run.pc = "done"
    /\ run.attempt.solved
    /\ Len(run.attempt.steps) = 3
    /\ run.attempt.steps[3].remaining_distance_after = 0

\* C36: for every StepMetrics remaining_distance_after is at least
\* remaining_distance_before - 1, the sentinel included: a step classified
\* forward brings the target one hop nearer, never more.
C36_OneHopPerMove ==
    run.pc = "done" =>
        \A i \in 1..Len(run.attempt.steps) :
            \E m \in {run.attempt.steps[i]} :
                /\ m.remaining_distance_after >= m.remaining_distance_before - 1
                /\ m.step_direction = "forward" =>
                      m.remaining_distance_after = m.remaining_distance_before - 1

\* C37: in every Attempt with a move, the first step's
\* remaining_distance_before is the attempt's best_path_length, computed by
\* run_attempt or given to it.
C37_FirstBeforeIsBestPath ==
    (run.pc = "done" /\ run.attempt.steps # <<>>) =>
        run.attempt.steps[1].remaining_distance_before = run.attempt.best_path_length

(***************************************************************************)
(* A further claim about the metrics, checked under SpecMetrics.           *)
(***************************************************************************)

\* C38: the effective cost of an attempt is its number of moves when it is
\* solved and MAX_CLICKS otherwise, and never more than MAX_CLICKS; so no
\* failed attempt costs less than a solved one, and the trimmed set never
\* leaves out a solved attempt while keeping a failed one that costs more.
C38_EffectiveCostCeiling ==
    metrics.pc = "computed" =>
        \A model_id \in DOMAIN metrics.models :
            \E model \in {metrics.models[model_id]} :
                /\ \A i \in 1..Len(model.attempts) :
                      /\ EffectiveClicks(model.attempts[i]) =
                            IF model.attempts[i].solved
                            THEN Len(model.attempts[i].steps)
                            ELSE MAX_CLICKS
                      /\ EffectiveClicks(model.attempts[i]) <= MAX_CLICKS
                /\ \A i, j \in 1..Len(model.attempts) :
                      (model.attempts[i].solved /\ ~model.attempts[j].solved) =>
                          EffectiveClicks(model.attempts[j])
                              >= EffectiveClicks(model.attempts[i])
                /\ \A d \in Dropped(model), k \in 1..Len(model.trimmed_attempts) :
                      (model.attempts[d].solved /\ ~model.trimmed_attempts[k].solved) =>
                          EffectiveClicks(model.trimmed_attempts[k])
                              <= EffectiveClicks(model.attempts[d])

\* A model with MaxAttempts attempts: a solved one and a failed one are
\* kept, and every attempt dropped is a failed one.
C38_Witness ==
    /\ metrics.pc = "computed"
    /\ \E model_id \in DOMAIN metrics.models :
          \E model \in {metrics.models[model_id]} :
              /\ Len(model.attempts) = MaxAttempts
              /\ Dropped(model) # {}
              /\ \A d \in Dropped(model) : ~model.attempts[d].solved
              /\ \E k \in 1..Len(model.trimmed_attempts) : model.trimmed_attempts[k].solved
              /\ \E k \in 1..Len(model.trimmed_attempts) : ~model.trimmed_attempts[k].solved

(***************************************************************************)
(* A further claim about the admission gate, checked under SpecAPI.        *)
(***************************************************************************)

\* No call is in progress: every caller has yet to call, or its call has
\* returned or raised.
NoCallInProgress ==
    \A i \in DOMAIN api.callers : api.callers[i].pc \in {"idle", "returned", "raised"}

\* C33: the permit a request took is released exactly once when the request
\* is handled, whatever its outcome (an answer, an "error" in the answer, a
\* caught failure before or on the last attempt, an exception that is not
\* caught); hence with no call in progress all api_permits permits are free.
C33_PermitReleasedOnce ==
    /\ [][\A i \in DOMAIN api.callers :
            (api.callers[i].pc = "responded" /\ api'.callers[i] # api.callers[i]) =>
                api'.value = api.value + 1]_vars
    /\ [](NoCallInProgress => api.value = api_permits)

(***************************************************************************)
(* SpecAll: run_all_benchmarks (orchestrator.py:183-218), the five         *)
(* conditions and the tips handed from the baseline to the tips condition. *)
(***************************************************************************)

\* MODELS (config.py:6-11), each id a string
MODELS ==
    << <<"o","p","e","n","a","i","/","g","p","t","-","5",".","2">>,
       <<"a","n","t","h","r","o","p","i","c","/","c","l","a","u","d","e","-","o","p","u","s","-","4",".","5">>,
       <<"x","-","a","i","/","g","r","o","k","-","4",".","1","-","f","a","s","t">>,
       <<"g","o","o","g","l","e","/","g","e","m","i","n","i","-","3","-","f","l","a","s","h","-","p","r","e","v","i","e","w">> >>

\* The conditions in the order of the calls of run_benchmark
\* (orchestrator.py:191, 197, 204, 210, 216).
RunOrder == <<"baseline", "cutoff", "tips", "low_reasoning", "peer_pressure">>

\* config.use_tips (conditions.py:47-51)
use_tips(condition) == condition = "tips"

\* The pairs one call of sample_article_pairs may return: the while loops
\* of sampler.py:93 and 132 give up after max_attempts rounds with what
\* they have, which may be nothing.
MaxSampled == 1

TxtSuffix == <<".","t","x","t">>

\* The name of the file of a model's tips (orchestrator.py:172)
TipsFileName(model_id) == ReplaceChar(model_id, "/", "_") \o TxtSuffix

\* Path.stem: the name without its last suffix
Stem(name) ==
    LET dots == {i \in 2..Len(name) : name[i] = "."}
    IN  IF dots = {} THEN name
        ELSE SubSeq(name, 1, (CHOOSE i \in dots : \A j \in dots : j <= i) - 1)

\* glob("*.txt")
MatchesTxt(name) ==
    /\ Len(name) >= Len(TxtSuffix)
    /\ SubSeq(name, Len(name) - Len(TxtSuffix) + 1, Len(name)) = TxtSuffix

\* The key load_tips files a text under (orchestrator.py:180)
LoadedModelId(name) == ReplaceChar(Stem(name), "_", "/")

\* A text of tips: the model that wrote it, the run it was written in, and
\* the line ends it has.
TipsText(model_id, written, eol) == [of |-> model_id, run |-> written, eol |-> eol]

\* Path.read_text: the text of a file, read with universal newlines, where
\* "\r\n" and "\r" become "\n".
ReadText(text) == [text EXCEPT !.eol = "lf"]

\* load_tips (orchestrator.py:175-181): the text of every *.txt file of the
\* directory is put under the key made of its name. Two names never make
\* one key, so the order of glob does not matter.
LoadTips(tips, files) ==
    LET names == {name \in DOMAIN files : MatchesTxt(name)}
        keys == {LoadedModelId(name) : name \in names}
    IN  [k \in keys \cup DOMAIN tips |->
            IF k \in keys
            THEN ReadText(files[CHOOSE name \in names : LoadedModelId(name) = k])
            ELSE tips[k]]

\* What OUTPUTS_DIR/baseline/tips may hold when the program starts: nothing,
\* or files of an earlier run, or a file somebody put there.
EarlierFiles ==
    { <<TipsFileName(MODELS[1]), TipsText(MODELS[1], "earlier", "lf")>>,
      <<TipsFileName(MODELS[2]), TipsText(MODELS[2], "earlier", "lf")>>,
      <<<<"n","o","t","e","s",".","t","x","t">>, TipsText(<<"n","o","b","o","d","y">>, "earlier", "lf")>> }

\* BenchmarkOrchestrator.__init__ (orchestrator.py:27-36) with the tips
\* directory as it is found: self.tips is empty, nothing has run.
NewRun(found) ==
    [pc |-> "constructed", tips |-> <<>>,
     files |-> [name \in {f[1] : f \in found} |->
                   (CHOOSE f \in found : f[1] = name)[2]],
     results |-> <<>>, condition |-> "none", pairs |-> 0, tasks |-> <<>>,
     model |-> 0]

\* self.tips.get(model_id) (orchestrator.py:95)
TipsGet(tips, model_id) ==
    IF model_id \in DOMAIN tips THEN Some(tips[model_id]) ELSE None

\* The coroutines of orchestrator.py:85-98 for `pairs` pairs, each with the
\* tips of its model as self.tips has them now.
TasksWithTips(tips, pairs) ==
    [n \in 1..(Len(MODELS) * pairs) |->
        [model_id |-> MODELS[(n - 1) \div pairs + 1],
         attempt_id |-> (n - 1) % pairs,
         tips |-> TipsGet(tips, MODELS[(n - 1) \div pairs + 1])]]

\* run_all_benchmarks goes on after the results it has (orchestrator.py:
\* 191-218): it calls run_benchmark with the next condition, after
\* load_tips when that is the tips condition, up to the await of the
\* sampler; or it returns the results.
NextBenchmark(b) ==
    IF Len(b.results) = Len(RunOrder)
    THEN [b EXCEPT !.pc = "returned", !.condition = "none", !.tasks = <<>>]
    ELSE [b EXCEPT !.pc = "sampling",
                   !.condition = RunOrder[Len(b.results) + 1],
                   !.tasks = <<>>,
                   !.pairs = 0,
                   !.tips = IF use_tips(RunOrder[Len(b.results) + 1])
                            THEN LoadTips(b.tips, b.files)
                            ELSE b.tips]

\* run_benchmark returns its metrics, which run_all_benchmarks puts under
\* the name of the condition (orchestrator.py:113-116, 191).
BenchmarkReturns(b) == NextBenchmark([b EXCEPT !.results = Append(@, b.condition)])

InitAll ==
    /\ graph = "pets"
    /\ bfs = IdleQuery(NewFinder)
    /\ game = IdleGame
    /\ run = IdleRun
    /\ call = IdleCall
    /\ api = NoAPI
    /\ chat = IdleChat
    /\ metrics = NoMetrics
    /\ \E found \in SUBSET EarlierFiles : batch = NewRun(found)
    /\ pathfinder = NoPathFinder

\* run_all_benchmarks is called (orchestrator.py:183-191).
RunAllBenchmarks ==
    /\ batch.pc = "constructed"
    /\ batch' = NextBenchmark(batch)
    /\ UNCHANGED <<remote, metrics, graph, bfs, game, run, call, pathfinder>>

\* The tasks are created and gather awaited (orchestrator.py:85-102).
GatheringAll(b) == [b EXCEPT !.pc = "gathering", !.tasks = TasksWithTips(b.tips, b.pairs)]

\* sample_article_pairs returns its pairs (orchestrator.py:65-82): the best
\* paths are computed first for peer pressure, one await for each pair.
AllSampled ==
    /\ batch.pc = "sampling"
    /\ \E pairs \in 0..MaxSampled :
          batch' = IF use_peer_pressure(batch.condition) /\ pairs > 0
                   THEN [batch EXCEPT !.pc = "precomputing", !.pairs = pairs]
                   ELSE GatheringAll([batch EXCEPT !.pairs = pairs])
    /\ UNCHANGED <<remote, metrics, graph, bfs, game, run, call, pathfinder>>

\* compute_shortest_path has returned for every pair (orchestrator.py:77-82).
AllPrecomputed ==
    /\ batch.pc = "precomputing"
    /\ batch' = GatheringAll(batch)
    /\ UNCHANGED <<remote, metrics, graph, bfs, game, run, call, pathfinder>>

\* gather returns (orchestrator.py:102-116): _collect_all_tips is awaited
\* for the baseline, where it plays a game for the first model if there is
\* a pair and does nothing if there is none (orchestrator.py:156-158);
\* otherwise run_benchmark returns.
AllGathered ==
    /\ batch.pc = "gathering"
    /\ batch' = IF collect_tips(batch.condition) /\ batch.pairs > 0
                THEN [batch EXCEPT !.pc = "tips", !.model = 1]
                ELSE BenchmarkReturns(batch)
    /\ UNCHANGED <<remote, metrics, graph, bfs, game, run, call, pathfinder>>

\* One round of the loop of _collect_all_tips (orchestrator.py:156-173):
\* the game is played, the model answers the request for tips, and the
\* answer is put into self.tips and written to the model's file; after the
\* last model run_benchmark returns.
CollectTips ==
    /\ batch.pc = "tips"
    /\ \E eol \in {"lf", "crlf"} :
         \E text \in {TipsText(MODELS[batch.model], "this", eol)} :
           \E b \in {[batch EXCEPT
                         !.tips = Put(@, MODELS[batch.model], text),
                         !.files = Put(@, TipsFileName(MODELS[batch.model]), text)]} :
              batch' = IF batch.model < Len(MODELS)
                       THEN [b EXCEPT !.model = @ + 1]
                       ELSE BenchmarkReturns(b)
    /\ UNCHANGED <<remote, metrics, graph, bfs, game, run, call, pathfinder>>

\* An await of the sampler, of compute_shortest_path or of _collect_all_tips
\* raises: no try encloses it, in run_benchmark or in run_all_benchmarks.
AllFails ==
    /\ batch.pc \in {"sampling", "precomputing", "tips"}
    /\ batch' = [batch EXCEPT !.pc = "raised"]
    /\ UNCHANGED <<remote, metrics, graph, bfs, game, run, call, pathfinder>>

NextAll ==
    \/ RunAllBenchmarks
    \/ AllSampled
    \/ AllPrecomputed
    \/ AllGathered
    \/ CollectTips
    \/ AllFails

SpecAll == InitAll /\ [][NextAll]_vars

\* The conditions run_benchmark has been called with, in the order of the
\* calls: those that returned and the one that runs.
Ran ==
    batch.results \o (IF batch.condition = "none" THEN <<>> ELSE <<batch.condition>>)

\* The attempts of the tips condition that gather runs.
TipsAttempts ==
    IF use_tips(batch.condition) /\ batch.pc = "gathering"
    THEN {batch.tasks[n] : n \in DOMAIN batch.tasks}
    ELSE {}

\* C32: the conditions run one after another in the order of RunOrder; an
\* attempt of the tips condition runs only after the baseline, with its
\* collection of tips, has returned; and every attempt of the tips condition
\* is given a text that its own model wrote in this run's collection of tips
\* (line ends aside).
C32_FiveInOrderWithTips ==
    /\ Ran = SubSeq(RunOrder, 1, Len(Ran))
    /\ \A task \in TipsAttempts :
          /\ \E n \in DOMAIN batch.results : batch.results[n] = "baseline"
          /\ ~IsNone(task.tips)
          /\ \E eol \in {"lf", "crlf"} :
                Get(task.tips) = ReadText(TipsText(task.model_id, "this", eol))

=============================================================================
